---- MODULE Spec2Model ----
(***************************************************************************)
(* Model of the tabular data-processing engine (DataProcessor), of the     *)
(* ingestion layer it is fed by and of the application's panels around it. *)
(*                                                                         *)
(* A text is a sequence of one-character strings, so that trimming,        *)
(* splitting, quoting and number parsing are computed character by         *)
(* character.  A cell is a tagged JavaScript scalar.  A row is a function  *)
(* from the keys it owns to cells; a key outside its DOMAIN is absent.     *)
(***************************************************************************)
EXTENDS Integers, Sequences, FiniteSets, TLC

VARIABLES
    data,      \* this.data of the processor: the sequence of rows
    fields,    \* this.fields of the processor: the sequence of descriptors
    tz,        \* minutes the host's local time is ahead of UTC
    last,      \* the most recent call: [op, args, ret]
    prev,      \* an earlier call the caller still holds: [op, args, ret]
    ui         \* the state hooks of the application around the processor

vars == <<data, fields, tz, last, prev, ui>>

(***************************************************************************)
(* JavaScript scalars                                                      *)
(***************************************************************************)
Undef    == [k |-> "undefined"]
Null     == [k |-> "null"]
NaN      == [k |-> "NaN"]
Num(n)   == [k |-> "number", n |-> n]
Bool(b)  == [k |-> "boolean", b |-> b]
Str(s)   == [k |-> "string", s |-> s]

isNaN(v)    == v = NaN
IsNum(v)    == v.k = "number"
IsString(v) == v.k = "string"

\* row[name]: reading a key the row does not own gives undefined
Get(row, name) == IF name \in DOMAIN row THEN row[name] ELSE Undef

\* value === null || value === undefined || value === ''
IsMissing(v) == v = Null \/ v = Undef \/ v = Str(<<>>)

(***************************************************************************)
(* Texts                                                                   *)
(***************************************************************************)
Digits == <<"0", "1", "2", "3", "4", "5", "6", "7", "8", "9">>

IsDigit(c) == \E i \in 1..10 : Digits[i] = c

DigitVal(c) == (CHOOSE i \in 1..10 : Digits[i] = c) - 1

\* WhiteSpace and LineTerminator code points of the model's alphabet
IsWhite(c) == c \in {" ", "\t", "\n", "\r"}

RECURSIVE TrimStart(_)
TrimStart(s) ==
    IF s # <<>> /\ IsWhite(Head(s)) THEN TrimStart(Tail(s)) ELSE s

RECURSIVE TrimEnd(_)
TrimEnd(s) ==
    IF s # <<>> /\ IsWhite(s[Len(s)]) THEN TrimEnd(SubSeq(s, 1, Len(s) - 1)) ELSE s

\* String.prototype.trim
Trim(s) == TrimEnd(TrimStart(s))

\* the decimal digits of a natural number
RECURSIVE NatDigits(_)
NatDigits(n) ==
    IF n < 10 THEN <<Digits[n + 1]>>
    ELSE NatDigits(n \div 10) \o <<Digits[(n % 10) + 1]>>

\* the value of a non-empty sequence of digits
RECURSIVE DigitsValue(_)
DigitsValue(s) ==
    IF s = <<>> THEN 0
    ELSE 10 * DigitsValue(SubSeq(s, 1, Len(s) - 1)) + DigitVal(s[Len(s)])

\* the longest prefix of s made of digits
RECURSIVE DigitPrefix(_)
DigitPrefix(s) ==
    IF s # <<>> /\ IsDigit(Head(s)) THEN <<Head(s)>> \o DigitPrefix(Tail(s)) ELSE <<>>

AllDigits(s) == \A i \in 1..Len(s) : IsDigit(s[i])

T_null      == <<"n", "u", "l", "l">>
T_undefined == <<"u", "n", "d", "e", "f", "i", "n", "e", "d">>
T_NaN       == <<"N", "a", "N">>
T_true      == <<"t", "r", "u", "e">>
T_false     == <<"f", "a", "l", "s", "e">>

\* String(v)
JsString(v) ==
    CASE v.k = "string"    -> v.s
      [] v.k = "number"    -> IF v.n < 0 THEN <<"-">> \o NatDigits(-v.n) ELSE NatDigits(v.n)
      [] v.k = "NaN"       -> T_NaN
      [] v.k = "boolean"   -> IF v.b THEN T_true ELSE T_false
      [] v.k = "null"      -> T_null
      [] v.k = "undefined" -> T_undefined

\* sign and unsigned rest of a numeric text
SignOf(s)   == IF s # <<>> /\ Head(s) = "-" THEN -1 ELSE 1
Unsigned(s) == IF s # <<>> /\ Head(s) \in {"-", "+"} THEN Tail(s) ELSE s

\* parseFloat(v): String(v), leading white space skipped, then the longest
\* prefix that is a decimal literal; NaN when there is none.  The model's
\* texts hold no '.', exponent or "Infinity" after the sign, so a decimal
\* literal is a run of digits.
parseFloat(v) ==
    LET s == TrimStart(JsString(v))
        d == DigitPrefix(Unsigned(s))
    IN  IF d = <<>> THEN NaN ELSE Num(SignOf(s) * DigitsValue(d))

\* Number(text): the whole trimmed text must be a numeric literal; the
\* empty text is 0
StringToNumber(s) ==
    LET t == Trim(s)
        u == Unsigned(t)
    IN  IF t = <<>> THEN Num(0)
        ELSE IF u # <<>> /\ AllDigits(u) THEN Num(SignOf(t) * DigitsValue(u))
        ELSE NaN

\* ToNumber(v) on the primitives
ToNumber(v) ==
    CASE v.k = "string"    -> StringToNumber(v.s)
      [] v.k = "number"    -> v
      [] v.k = "NaN"       -> NaN
      [] v.k = "boolean"   -> IF v.b THEN Num(1) ELSE Num(0)
      [] v.k = "null"      -> Num(0)
      [] v.k = "undefined" -> NaN

\* a == b (IsLooselyEqual) on the primitives
LooseEq(a, b) ==
    CASE a.k = "NaN" \/ b.k = "NaN" -> FALSE
      [] a.k = b.k -> a = b
      [] a.k \in {"null", "undefined"} /\ b.k \in {"null", "undefined"} -> TRUE
      [] a.k \in {"null", "undefined"} \/ b.k \in {"null", "undefined"} -> FALSE
      [] OTHER -> LET x == ToNumber(a)
                      y == ToNumber(b)
                  IN  x # NaN /\ y # NaN /\ x = y

\* !!v (ToBoolean)
Truthy(v) ==
    CASE v.k = "string"    -> v.s # <<>>
      [] v.k = "number"    -> v.n # 0
      [] v.k = "boolean"   -> v.b
      [] OTHER             -> FALSE

UpperCase == <<"A", "B", "C", "D", "E", "F", "G", "H", "I", "J", "K", "L", "M",
               "N", "O", "P", "Q", "R", "S", "T", "U", "V", "W", "X", "Y", "Z">>
LowerCase == <<"a", "b", "c", "d", "e", "f", "g", "h", "i", "j", "k", "l", "m",
               "n", "o", "p", "q", "r", "s", "t", "u", "v", "w", "x", "y", "z">>

IsUpper(c) == \E i \in 1..26 : UpperCase[i] = c

\* toLowerCase of one character of the model's alphabet
LowerChar(c) ==
    IF IsUpper(c)
    THEN LowerCase[CHOOSE i \in 1..26 : UpperCase[i] = c]
    ELSE c

\* String.prototype.toLowerCase
ToLowerCase(s) == [i \in 1..Len(s) |-> LowerChar(s[i])]

\* String.prototype.includes
Includes(s, t) ==
    \E i \in 0..(Len(s) - Len(t)) : SubSeq(s, i + 1, i + Len(t)) = t

(***************************************************************************)
(* Dates.  A time value is [d, ms]: whole days since 1970-01-01 UTC and    *)
(* the milliseconds into that day; NaN is the time value of Invalid Date.  *)
(***************************************************************************)
MsPerDay    == 86400000
MsPerMinute == 60000

Time(d, ms) == [k |-> "time", d |-> d, ms |-> ms]

\* a day count plus a signed millisecond offset, normalised
TimeAt(d, off) == Time(d + (off \div MsPerDay), off % MsPerDay)

IsLeap(y) == (y % 4 = 0 /\ y % 100 # 0) \/ y % 400 = 0

DaysInMonth(y, m) ==
    IF m = 2 THEN (IF IsLeap(y) THEN 29 ELSE 28)
    ELSE IF m \in {4, 6, 9, 11} THEN 30 ELSE 31

\* MakeDay: the day number of a proleptic Gregorian date
DaysFromCivil(y, m, d) ==
    LET yy  == IF m <= 2 THEN y - 1 ELSE y
        era == yy \div 400
        yoe == yy - era * 400
        mp  == IF m > 2 THEN m - 3 ELSE m + 9
        doy == ((153 * mp + 2) \div 5) + d - 1
        doe == yoe * 365 + (yoe \div 4) - (yoe \div 100) + doy
    IN  era * 146097 + doe - 719468

\* YearFromTime, MonthFromTime, DateFromTime of a day number
CivilFromDays(z) ==
    LET zz  == z + 719468
        era == zz \div 146097
        doe == zz - era * 146097
        yoe == (doe - (doe \div 1460) + (doe \div 36524) - (doe \div 146096)) \div 365
        doy == doe - (365 * yoe + (yoe \div 4) - (yoe \div 100))
        mp  == (5 * doy + 2) \div 153
        d   == doy - ((153 * mp + 2) \div 5) + 1
        m   == IF mp < 10 THEN mp + 3 ELSE mp - 9
        y   == yoe + era * 400 + (IF m <= 2 THEN 1 ELSE 0)
    IN  [y |-> y, m |-> m, d |-> d]

ValidYMD(y, m, d) == m \in 1..12 /\ d >= 1 /\ d <= DaysInMonth(y, m)

\* dddd-dd-dd
IsIsoShape(s) ==
    /\ Len(s) = 10
    /\ s[5] = "-" /\ s[8] = "-"
    /\ \A i \in {1, 2, 3, 4, 6, 7, 9, 10} : IsDigit(s[i])

\* dd/dd/dddd
IsSlashShape(s) ==
    /\ Len(s) = 10
    /\ s[3] = "/" /\ s[6] = "/"
    /\ \A i \in {1, 2, 4, 5, 7, 8, 9, 10} : IsDigit(s[i])

\* Date.parse(text).  A date-only ISO text is midnight UTC; MM/DD/YYYY, the
\* one fallback format of the model, is midnight local time.  Any other
\* text of the model is not a date.
DateParse(s) ==
    IF IsIsoShape(s)
    THEN LET y == DigitsValue(SubSeq(s, 1, 4))
             m == DigitsValue(SubSeq(s, 6, 7))
             d == DigitsValue(SubSeq(s, 9, 10))
         IN  IF ValidYMD(y, m, d) THEN Time(DaysFromCivil(y, m, d), 0) ELSE NaN
    ELSE IF IsSlashShape(s)
    THEN LET m == DigitsValue(SubSeq(s, 1, 2))
             d == DigitsValue(SubSeq(s, 4, 5))
             y == DigitsValue(SubSeq(s, 7, 10))
         IN  IF ValidYMD(y, m, d)
             THEN TimeAt(DaysFromCivil(y, m, d), -(tz * MsPerMinute))
             ELSE NaN
    ELSE NaN

\* new Date(v).getTime()
DateTime(v) ==
    CASE v.k = "string"    -> DateParse(v.s)
      [] v.k = "number"    -> TimeAt(0, v.n)
      [] v.k = "boolean"   -> TimeAt(0, IF v.b THEN 1 ELSE 0)
      [] v.k = "null"      -> Time(0, 0)
      [] OTHER             -> NaN

\* n as at least w digits, zero padded
RECURSIVE Pad(_, _)
Pad(s, w) == IF Len(s) < w THEN Pad(<<"0">> \o s, w) ELSE s

\* a faulty variant: the date is formatted from the local-time getters
LocalDate(t) ==
    LET c == CivilFromDays(TimeAt(t.d, t.ms + tz * MsPerMinute).d)
    IN  Pad(NatDigits(c.y), 4) \o <<"-">> \o Pad(NatDigits(c.m), 2)
            \o <<"-">> \o Pad(NatDigits(c.d), 2)

\* date.toISOString().split('T')[0] for a year in 0..9999: the UTC date
ISODate(t) ==
    LET c == CivilFromDays(t.d)
    IN  Pad(NatDigits(c.y), 4) \o <<"-">> \o Pad(NatDigits(c.m), 2)
            \o <<"-">> \o Pad(NatDigits(c.d), 2)

(***************************************************************************)
(* The dataset                                                             *)
(***************************************************************************)
F_a == <<"a">>
F_b == <<"b">>

FieldTypes == {"number", "string", "date"}

Field(name, type) == [name |-> name, type |-> type]

\* this.fields.find(f => f.name === name)?.type, "none" when there is none
TypeOf(fs, name) ==
    IF \E i \in 1..Len(fs) : fs[i].name = name
    THEN fs[CHOOSE i \in 1..Len(fs) :
                /\ fs[i].name = name
                /\ \A j \in 1..(i - 1) : fs[j].name # name].type
    ELSE "none"

FieldNames(fs) == {fs[i].name : i \in 1..Len(fs)}

\* the type the last descriptor of that name declares: forEach assigns
\* cleanedRow[field.name] in descriptor order
LastTypeOf(fs, name) ==
    fs[CHOOSE i \in 1..Len(fs) :
            /\ fs[i].name = name
            /\ \A j \in (i + 1)..Len(fs) : fs[j].name # name].type

\* a call and what it returned
Call(op, args, ret) == [op |-> op, args |-> args, ret |-> ret, threw |-> FALSE]

\* a call that ended in an exception
Thrown(op, args) == [op |-> op, args |-> args, ret |-> Undef, threw |-> TRUE]

\* how the evaluation of a method body ends: with a value, or by throwing
Completed(value) == [threw |-> FALSE, value |-> value]
Threw            == [threw |-> TRUE, value |-> "TypeError"]

\* the call record of a method body's completion
Outcome(op, args, completion) ==
    IF completion.threw THEN Thrown(op, args) ELSE Call(op, args, completion.value)

NoCall == Call("new", <<>>, Undef)

\* no method of the processor has been called yet
FirstCall == last.op = "new"

\* the application's state hooks before any event: no file, no rows, no
\* processor, no conditions, the D3 engine, no axes chosen, nothing pending
InitialUi ==
    [ currentFile       |-> Null,
      processedData     |-> <<>>,
      axes              |-> FALSE,
      shouldGenerate    |-> FALSE,
      isGenerating      |-> FALSE,
      localIsGenerating |-> FALSE,
      localChartEngine  |-> "d3",
      processor         |-> FALSE,
      filters           |-> <<>>,
      sorts             |-> <<>>,
      panelData         |-> <<>>,
      selectedField     |-> <<>>,
      pending           |-> {},
      loads             |-> 0,
      addedAt           |-> [filters |-> <<>>, sorts |-> <<>>] ]

(***************************************************************************)
(* clean()                                                                 *)
(***************************************************************************)
\* the default of a missing cell
CleanMissing(type) ==
    CASE type = "number" -> Num(0)
      [] type = "string" -> Str(<<>>)
      [] type = "date"   -> Null

\* a faulty variant: an unparsable number is kept as NaN
CleanPresentKeepNaN(v, type) ==
    CASE type = "number" -> parseFloat(v)
      [] type = "string" -> Str(Trim(JsString(v)))
      [] type = "date"   -> (IF isNaN(DateTime(v)) THEN Null ELSE Str(ISODate(DateTime(v))))

\* the canonical form of a present cell
CleanPresent(v, type) ==
    CASE type = "number" -> (IF isNaN(parseFloat(v)) THEN Num(0) ELSE parseFloat(v))
      [] type = "string" -> Str(Trim(JsString(v)))
      [] type = "date"   -> (IF isNaN(DateTime(v)) THEN Null ELSE Str(ISODate(DateTime(v))))

CleanCell(v, type) ==
    IF IsMissing(v) THEN CleanMissing(type) ELSE CleanPresent(v, type)

CleanRow(row, fs) ==
    [name \in FieldNames(fs) |-> CleanCell(Get(row, name), LastTypeOf(fs, name))]

\* DataProcessor.clean
clean(rows, fs) == [i \in 1..Len(rows) |-> CleanRow(rows[i], fs)]

(***************************************************************************)
(* Inputs of the clean() specification                                     *)
(***************************************************************************)
MaxCleanRows == 2

D_iso     == <<"2", "0", "2", "4", "-", "0", "1", "-", "1", "5">>
D_slash   == <<"0", "1", "/", "0", "1", "/", "2", "0", "2", "4">>
D_invalid == <<"2", "0", "2", "4", "-", "1", "3", "-", "0", "1">>

CleanCells ==
    { Null, Str(<<>>), Str(<<" ", "7", " ">>), Str(<<"x">>), Num(0), Bool(FALSE),
      Str(D_iso), Str(D_slash), Str(D_invalid) }

\* rows over the keys a (any cell, or absent) and b (a padded text, or absent)
CleanRowsA == {[n \in {F_a} |-> c] : c \in CleanCells} \cup {<<>>}

WithB(row) == [n \in (DOMAIN row) \cup {F_b} |-> IF n = F_b THEN Str(<<"x", " ">>) ELSE row[n]]

CleanInputRows == CleanRowsA \cup {WithB(r) : r \in CleanRowsA}

SeqsUpTo(S, n) == UNION {[1..m -> S] : m \in 0..n}

TimeZones == {-300, 480}

InitClean ==
    /\ data \in SeqsUpTo(CleanInputRows, MaxCleanRows)
    /\ \E t \in FieldTypes : fields = <<Field(F_a, t), Field(F_b, "string")>>
    /\ tz \in TimeZones
    /\ last = NoCall
    /\ prev = NoCall
    /\ ui = InitialUi

\* processor.clean()
Clean ==
    /\ last' = Call("clean", <<>>, clean(data, fields))
    /\ UNCHANGED <<data, fields, tz, prev, ui>>

\* new DataProcessor({data: cleaned, fields}) over the rows clean() returned
Reconstruct ==
    /\ last.op = "clean"
    /\ data' = last.ret
    /\ prev' = last
    /\ last' = NoCall
    /\ UNCHANGED <<fields, tz, ui>>

NextClean == Clean \/ Reconstruct

SpecClean == InitClean /\ [][NextClean]_vars

\* C1: clean() is idempotent: cleaning the rows clean() returned, with the
\* same fields, returns rows equal to them cell for cell
CleanIdempotent ==
    (last.op = "clean" /\ prev.op = "clean" /\ data = prev.ret) => last.ret = prev.ret

\* a second clean() over a first result that holds a reformatted local date
CleanIdempotentWitness ==
    /\ last.op = "clean" /\ prev.op = "clean" /\ data = prev.ret
    /\ Len(data) = 2
    /\ \E i \in 1..Len(data) : data[i][F_a] = Str(<<"2", "0", "2", "3", "-", "1", "2", "-", "3", "1">>)

\* the canonical form the claim gives a source cell of a field of that type
IsCanonical(src, c, type) ==
    CASE type = "number" ->
            /\ IsNum(c)
            /\ c = (IF IsMissing(src) \/ isNaN(parseFloat(src)) THEN Num(0) ELSE parseFloat(src))
      [] type = "string" ->
            /\ IsString(c)
            /\ c.s = (IF IsMissing(src) THEN <<>> ELSE Trim(JsString(src)))
      [] type = "date" ->
            /\ c = Null \/ (IsString(c) /\ IsIsoShape(c.s))
            /\ (c = Null) <=> (IsMissing(src) \/ isNaN(DateTime(src)))

Condition(field, operator, value, value2) ==
    [field |-> field, operator |-> operator, value |-> value, value2 |-> value2]

\* a faulty variant: the strict comparison lets equal numbers pass
NumGtOrEqual(a, b) == IsNum(a) /\ IsNum(b) /\ a.n >= b.n

\* a faulty variant: the inclusive comparison leaves equal numbers out
NumGeStrict(a, b) == IsNum(a) /\ IsNum(b) /\ a.n > b.n

\* a > b, a >= b on numbers: false when either side is NaN
NumGt(a, b) == IsNum(a) /\ IsNum(b) /\ a.n > b.n
NumGe(a, b) == IsNum(a) /\ IsNum(b) /\ a.n >= b.n

\* a faulty variant: a condition with an unknown operator fails
SatisfiesKnown(row, c) ==
    LET value == Get(row, c.field)
    IN  CASE c.operator = "equals"    -> LooseEq(value, c.value)
          [] c.operator = "contains"  -> Includes(ToLowerCase(JsString(value)),
                                                  ToLowerCase(JsString(c.value)))
          [] c.operator = "greater"   -> NumGt(parseFloat(value), parseFloat(c.value))
          [] c.operator = "less"      -> NumGt(parseFloat(c.value), parseFloat(value))
          [] c.operator = "between"   -> /\ NumGe(parseFloat(value), parseFloat(c.value))
                                         /\ NumGe(parseFloat(c.value2), parseFloat(value))
          [] c.operator = "not_empty" -> ~IsMissing(value)
          [] OTHER                    -> FALSE

\* the switch on condition.operator for one row
Satisfies(row, c) ==
    LET value == Get(row, c.field)
    IN  CASE c.operator = "equals"    -> LooseEq(value, c.value)
          [] c.operator = "contains"  -> Includes(ToLowerCase(JsString(value)),
                                                  ToLowerCase(JsString(c.value)))
          [] c.operator = "greater"   -> NumGt(parseFloat(value), parseFloat(c.value))
          [] c.operator = "less"      -> NumGt(parseFloat(c.value), parseFloat(value))
          [] c.operator = "between"   -> /\ NumGe(parseFloat(value), parseFloat(c.value))
                                         /\ NumGe(parseFloat(c.value2), parseFloat(value))
          [] c.operator = "not_empty" -> ~IsMissing(value)
          [] OTHER                    -> TRUE

\* a faulty variant: a row passes when some condition holds
PassesSome(row, conds) == \E i \in 1..Len(conds) : Satisfies(row, conds[i])

\* conditions.every(...)
PassesAll(row, conds) == \A i \in 1..Len(conds) : Satisfies(row, conds[i])

\* DataProcessor.filter
filter(rows, conds) ==
    LET Keep(row) == PassesAll(row, conds)
    IN  SelectSeq(rows, Keep)

(***************************************************************************)
(* Inputs of the filter specification                                      *)
(***************************************************************************)
MaxFilterRows == 2
MaxConds      == 2

\* cells under key a; the row without the key reads as undefined
FilterCells == { Null, Str(<<>>), Str(<<"5">>), Str(<<"A", "n">>) }

FilterInputRows == {[n \in {F_a} |-> c] : c \in FilterCells} \cup {<<>>}

FilterConditions ==
    { Condition(F_a, "equals", Str(<<>>), Undef),
      Condition(F_a, "equals", Num(5), Undef),
      Condition(F_a, "contains", Str(<<"N">>), Undef),
      Condition(F_a, "greater", Str(<<"3">>), Undef),
      Condition(F_a, "between", Str(<<"1">>), Str(<<"1", "0">>)),
      Condition(F_a, "not_empty", Undef, Undef),
      Condition(F_a, "matches", Str(<<"5">>), Undef) }

InitFilter ==
    /\ data \in SeqsUpTo(FilterInputRows, MaxFilterRows)
    /\ fields = <<Field(F_a, "string")>>
    /\ tz = 0
    /\ last = NoCall
    /\ prev = NoCall
    /\ ui = InitialUi

\* processor.filter(c1)
Filter(c1) ==
    /\ last' = Call("filter", c1, filter(data, c1))
    /\ prev' = NoCall
    /\ UNCHANGED <<data, fields, tz, ui>>

\* processor.filter(c1 ++ c2), the caller keeping the result of filter(c1)
FilterExtended(c2) ==
    /\ last.op = "filter"
    /\ Len(last.args) + Len(c2) <= MaxConds
    /\ prev' = last
    /\ last' = Call("filter", last.args \o c2, filter(data, last.args \o c2))
    /\ UNCHANGED <<data, fields, tz, ui>>

NextFilter ==
    \/ \E c1 \in SeqsUpTo(FilterConditions, MaxConds) : FirstCall /\ Filter(c1)
    \/ \E c2 \in SeqsUpTo(FilterConditions, MaxConds) : FilterExtended(c2)

SpecFilter == InitFilter /\ [][NextFilter]_vars

\* s is t with some elements left out
RECURSIVE IsSubSeq(_, _)
IsSubSeq(s, t) ==
    IF s = <<>> THEN TRUE
    ELSE IF t = <<>> THEN FALSE
    ELSE IF Head(s) = Head(t) THEN IsSubSeq(Tail(s), Tail(t))
    ELSE IsSubSeq(s, Tail(t))

IsPrefix(s, t) == Len(s) <= Len(t) /\ SubSeq(t, 1, Len(s)) = s

\* C2: filter monotonicity: every row filter(c1 ++ c2) returns is a row
\* filter(c1) returns
FilterMonotone ==
    (last.op = "filter" /\ prev.op = "filter" /\ IsPrefix(prev.args, last.args))
        => IsSubSeq(last.ret, prev.ret)

\* a second condition that removes a row the first condition kept
FilterMonotoneWitness ==
    /\ last.op = "filter" /\ prev.op = "filter"
    /\ Len(prev.args) = 1 /\ Len(last.args) = 2
    /\ IsPrefix(prev.args, last.args)
    /\ Len(prev.ret) = 2 /\ Len(last.ret) = 1

\* two rows differ at most in which representation of a missing cell
\* (absent key, null, undefined, empty string) they use
SameUpToMissing(r1, r2) ==
    \A name \in (DOMAIN r1) \cup (DOMAIN r2) :
        \/ Get(r1, name) = Get(r2, name)
        \/ IsMissing(Get(r1, name)) /\ IsMissing(Get(r2, name))

Kept(rows, row) == \E k \in 1..Len(rows) : rows[k] = row

\* C8: filter gives two rows that differ only in the representation of a
\* missing cell the same pass/fail outcome
FilterMissingAlike ==
    last.op = "filter" =>
        \A i, j \in 1..Len(data) :
            SameUpToMissing(data[i], data[j])
                => (Kept(last.ret, data[i]) <=> Kept(last.ret, data[j]))

KnownOperators == {"equals", "contains", "greater", "less", "between", "not_empty"}

\* C16: filter returns exactly the rows for which every condition is
\* satisfied, a condition with an unknown operator counting as satisfied;
\* with no condition it returns every row
FilterExact ==
    last.op = "filter" =>
        LET AllHold(row) ==
                \A k \in 1..Len(last.args) :
                    last.args[k].operator \in KnownOperators => Satisfies(row, last.args[k])
        IN  /\ last.ret = SelectSeq(data, AllHold)
            /\ last.args = <<>> => last.ret = data

\* a condition with an unknown operator next to one that removes a row
FilterExactWitness ==
    /\ last.op = "filter"
    /\ Len(last.args) = 2
    /\ last.args[1].operator = "matches"
    /\ last.args[2].operator = "not_empty"
    /\ Len(data) = 2 /\ Len(last.ret) = 1

(***************************************************************************)
(* filter with one numeric condition: greater, less, between               *)
(***************************************************************************)
MaxCompareRows == 2

CompareCells ==
    { Str(<<"1">>), Str(<<"5">>), Str(<<"1", "0">>), Num(5), Str(<<" ", "7", "x">>),
      Str(<<"a", "b", "c">>), Str(<<>>), Null }

CompareInputRows == {[n \in {F_a} |-> c] : c \in CompareCells} \cup {<<>>}

CompareValues == { Str(<<"1">>), Str(<<"5">>), Num(10), Str(<<"x">>), Undef }

CompareConditions ==
    {Condition(F_a, op, v, Undef) : op \in {"greater", "less"}, v \in CompareValues}
        \cup {Condition(F_a, "between", v, w) : v, w \in CompareValues}

InitCompare ==
    /\ data \in SeqsUpTo(CompareInputRows, MaxCompareRows)
    /\ fields = <<Field(F_a, "number")>>
    /\ tz = 0
    /\ last = NoCall
    /\ prev = NoCall
    /\ ui = InitialUi

NextCompare == \E c \in CompareConditions : FirstCall /\ Filter(<<c>>)

SpecCompare == InitCompare /\ [][NextCompare]_vars

\* the number a cell or a condition value reads as; Parses when it is one
Parsed(v) == parseFloat(v)
Parses(v) == ~isNaN(parseFloat(v))

\* C14: between is inclusive on both bounds: a row passes exactly when its
\* cell, value and value2 all parse as numbers and value <= cell <= value2
BetweenInclusive ==
    (last.op = "filter" /\ Len(last.args) = 1 /\ last.args[1].operator = "between") =>
        LET c == last.args[1]
            InRange(row) ==
                LET cell == Get(row, c.field)
                IN  /\ Parses(cell) /\ Parses(c.value) /\ Parses(c.value2)
                    /\ Parsed(c.value).n <= Parsed(cell).n
                    /\ Parsed(cell).n <= Parsed(c.value2).n
        IN  last.ret = SelectSeq(data, InRange)

\* a cell equal to the lower bound passes, an unparsable cell does not
BetweenInclusiveWitness ==
    /\ last.op = "filter"
    /\ last.args = <<Condition(F_a, "between", Str(<<"5">>), Num(10))>>
    /\ Len(data) = 2
    /\ Get(data[1], F_a) = Str(<<"5">>)
    /\ Get(data[2], F_a) = Str(<<"a", "b", "c">>)
    /\ last.ret = <<data[1]>>

\* C17: for greater and less a row passes only when the cell and the
\* condition value are both numeric and the strict comparison holds; a
\* non-numeric or missing cell or value makes the condition false, and no
\* error is raised
StrictComparison ==
    (last.op = "filter" /\ Len(last.args) = 1
        /\ last.args[1].operator \in {"greater", "less"}) =>
        LET c == last.args[1]
            Holds(row) ==
                LET cell == Get(row, c.field)
                IN  /\ Parses(cell) /\ Parses(c.value)
                    /\ IF c.operator = "greater"
                       THEN Parsed(cell).n > Parsed(c.value).n
                       ELSE Parsed(cell).n < Parsed(c.value).n
        IN  /\ ~last.threw
            /\ last.ret = SelectSeq(data, Holds)

\* greater than 5: the cell 10 passes, the equal cell 5 does not
StrictComparisonWitness ==
    /\ last.op = "filter"
    /\ last.args = <<Condition(F_a, "greater", Str(<<"5">>), Undef)>>
    /\ Len(data) = 2
    /\ Get(data[1], F_a) = Num(5)
    /\ Get(data[2], F_a) = Str(<<"1", "0">>)
    /\ last.ret = <<data[2]>>

(***************************************************************************)
(* sort(data, conditions)                                                  *)
(***************************************************************************)
SortCondition(field, direction) == [field |-> field, direction |-> direction]

\* the primary collation order of the model's alphabet: white space,
\* punctuation, digits, letters
CollationOrder ==
    <<"\t", "\n", "\r", " ", "_", "-", ",", "\"", "/", "+",
      "0", "1", "2", "3", "4", "5", "6", "7", "8", "9",
      "a", "b", "c", "d", "e", "f", "g", "h", "i", "j", "k", "l", "m",
      "n", "o", "p", "q", "r", "s", "t", "u", "v", "w", "x", "y", "z">>

PrimaryRank(c) ==
    LET l == LowerChar(c)
    IN  CHOOSE i \in 1..46 : CollationOrder[i] = l

\* -1, 0 or 1: the lexicographic order of two sequences of integers
RECURSIVE LexCompare(_, _)
LexCompare(s, t) ==
    IF s = <<>> /\ t = <<>> THEN 0
    ELSE IF s = <<>> THEN -1
    ELSE IF t = <<>> THEN 1
    ELSE IF Head(s) < Head(t) THEN -1
    ELSE IF Head(s) > Head(t) THEN 1
    ELSE LexCompare(Tail(s), Tail(t))

\* s.localeCompare(t): letters and digits first, then lower case before
\* upper case
localeCompare(s, t) ==
    LET primary == LexCompare([i \in 1..Len(s) |-> PrimaryRank(s[i])],
                              [i \in 1..Len(t) |-> PrimaryRank(t[i])])
    IN  IF primary # 0 THEN primary
        ELSE LexCompare([i \in 1..Len(s) |-> IF IsUpper(s[i]) THEN 1 ELSE 0],
                        [i \in 1..Len(t) |-> IF IsUpper(t[i]) THEN 1 ELSE 0])

\* a - b on numbers: NaN when either side is NaN
NumSub(a, b) == IF IsNum(a) /\ IsNum(b) THEN Num(a.n - b.n) ELSE NaN

\* the sign of a.getTime() - b.getTime(), NaN when either date is invalid
\* (sort reads the sign of the difference only)
TimeSub(a, b) ==
    IF isNaN(a) \/ isNaN(b) THEN NaN
    ELSE IF a.d # b.d THEN Num(IF a.d < b.d THEN -1 ELSE 1)
    ELSE Num(IF a.ms < b.ms THEN -1 ELSE IF a.ms > b.ms THEN 1 ELSE 0)

\* -comparison
Negate(v) == IF IsNum(v) THEN Num(-v.n) ELSE NaN

\* the comparison of two cells under one condition's field type
Comparison(aValue, bValue, type) ==
    CASE type = "number" -> NumSub(parseFloat(aValue), parseFloat(bValue))
      [] type = "date"   -> TimeSub(DateTime(aValue), DateTime(bValue))
      [] OTHER           -> Num(localeCompare(JsString(aValue), JsString(bValue)))

\* the comparator passed to Array.prototype.sort: the first condition whose
\* comparison !== 0 decides (NaN !== 0 holds)
RECURSIVE Comparator(_, _, _, _)
Comparator(a, b, conds, fs) ==
    IF conds = <<>> THEN Num(0)
    ELSE LET condition  == Head(conds)
             comparison == Comparison(Get(a, condition.field), Get(b, condition.field),
                                      TypeOf(fs, condition.field))
         IN  IF comparison # Num(0)
             THEN (IF condition.direction = "asc" THEN comparison ELSE Negate(comparison))
             ELSE Comparator(a, b, Tail(conds), fs)

\* SortCompare of Array.prototype.sort: a NaN from the comparator counts as +0
SortCompare(a, b, conds, fs) ==
    LET v == Comparator(a, b, conds, fs)
    IN  IF isNaN(v) THEN 0 ELSE v.n

\* SortCompare for every pair of positions of rows
CompareMatrix(rows, conds, fs) ==
    [i \in 1..Len(rows) |-> [j \in 1..Len(rows) |->
        SortCompare(rows[i], rows[j], conds, fs)]]

\* the comparator, given as its matrix c over n rows, is a consistent
\* comparison function for them: reflexive, symmetric and transitive on
\* ties, antisymmetric and transitive on order
IsConsistent(c, n) ==
    /\ \A i \in 1..n : c[i][i] = 0
    /\ \A i, j \in 1..n : (c[i][j] = 0 => c[j][i] = 0) /\ (c[i][j] < 0 => c[j][i] > 0)
    /\ \A i, j, k \in 1..n :
          /\ (c[i][j] = 0 /\ c[j][k] = 0) => c[i][k] = 0
          /\ (c[i][j] < 0 /\ c[j][k] < 0) => c[i][k] < 0
          /\ (c[i][j] > 0 /\ c[j][k] > 0) => c[i][k] > 0

IndexOrders(n) ==
    {p \in [1..n -> 1..n] : \A i, j \in 1..n : i # j => p[i] # p[j]}

\* p puts the rows in ascending order and keeps ties in input order
IsStableOrder(p, c, n) ==
    \A i, j \in 1..n :
        i < j => c[p[i]][p[j]] < 0 \/ (c[p[i]][p[j]] = 0 /\ p[i] < p[j])

\* the orders [...data].sort(comparator) may return: the stable ascending
\* order under a consistent comparator, an implementation-defined order of
\* the same rows otherwise
SortOrders(rows, conds, fs) ==
    LET n == Len(rows)
        Orders(c) == IF IsConsistent(c, n)
                     THEN {p \in IndexOrders(n) : IsStableOrder(p, c, n)}
                     ELSE IndexOrders(n)
    IN  UNION {Orders(c) : c \in {CompareMatrix(rows, conds, fs)}}

\* a faulty variant: the array passed in is sorted in place
SortInPlace(rows, out) == out

\* the array passed to sort after the call: [...data] sorts a copy
SortInput(rows, out) == rows

Permute(rows, p) == [i \in 1..Len(rows) |-> rows[p[i]]]

\* DataProcessor.sort: the sequences it may return
sort(rows, conds, fs) == {Permute(rows, p) : p \in SortOrders(rows, conds, fs)}

(***************************************************************************)
(* Inputs of the sort specification                                        *)
(***************************************************************************)
MaxSortRows  == 4
MaxSortConds == 2

SortCells == { Str(<<"1">>), Str(<<"2">>), Str(<<"x">>) }

\* the i-th row carries the tag of its position under key b
SortTags == <<Str(<<"p">>), Str(<<"q">>), Str(<<"r">>), Str(<<"s">>), Str(<<"t">>)>>

SortRow(c, i) == [n \in {F_a, F_b} |-> IF n = F_a THEN c ELSE SortTags[i]]

SortInputs ==
    UNION {{[i \in 1..m |-> SortRow(cs[i], i)] : cs \in [1..m -> SortCells]} :
              m \in 0..MaxSortRows}

SortConditions ==
    { SortCondition(F_a, "asc"), SortCondition(F_a, "desc"), SortCondition(F_b, "desc") }

InitSort ==
    /\ data \in SortInputs
    /\ \E t \in {"number", "string"} : fields = <<Field(F_a, t), Field(F_b, "string")>>
    /\ tz = 0
    /\ last = NoCall
    /\ prev = NoCall
    /\ ui = InitialUi

\* processor.sort(this.data, conds)
Sort(conds) ==
    /\ \E out \in sort(data, conds, fields) :
          /\ last' = Call("sort", conds, out)
          /\ data' = SortInput(data, out)
    /\ UNCHANGED <<fields, tz, prev, ui>>

\* processor.sort(sorted, conds) on the rows an earlier sort returned
SortAgain ==
    /\ last.op = "sort"
    /\ prev = NoCall
    /\ ui = InitialUi
    /\ \E out \in sort(last.ret, last.args, fields) :
          last' = Call("sort", last.args, out)
    /\ prev' = last
    /\ UNCHANGED <<data, fields, tz, ui>>

NextSort ==
    \/ \E conds \in SeqsUpTo(SortConditions, MaxSortConds) : FirstCall /\ Sort(conds)
    \/ SortAgain

SpecSort == InitSort /\ [][NextSort]_vars

\* the position of a row in a sequence of distinct rows
PositionIn(rows, row) == CHOOSE k \in 1..Len(rows) : rows[k] = row

\* two rows tie on every condition: each comparison is 0
TieOnAll(a, b, conds, fs) ==
    \A k \in 1..Len(conds) :
        Comparison(Get(a, conds[k].field), Get(b, conds[k].field),
                   TypeOf(fs, conds[k].field)) = Num(0)

\* C3: sort stability: two rows that tie on every condition keep their
\* relative input order in the output of sort
SortStable ==
    last.op = "sort" =>
        \A i, j \in 1..Len(data) :
            (i < j /\ TieOnAll(data[i], data[j], last.args, fields))
                => PositionIn(last.ret, data[i]) < PositionIn(last.ret, data[j])

(***************************************************************************)
(* groupBy(fieldName) and aggregate(groupField, valueField, operation)     *)
(***************************************************************************)
T_Unknown     == <<"U", "n", "k", "n", "o", "w", "n">>
T_constructor == <<"c", "o", "n", "s", "t", "r", "u", "c", "t", "o", "r">>
T_toString    == <<"t", "o", "S", "t", "r", "i", "n", "g">>
T_valueOf     == <<"v", "a", "l", "u", "e", "O", "f">>
T_proto       == <<"_", "_", "p", "r", "o", "t", "o", "_", "_">>

\* property names the object literal {} inherits from Object.prototype, each
\* with a truthy value that has no push method: groups[key].push(row) is a
\* TypeError for them
ObjectPrototypeKeys == {T_constructor, T_toString, T_valueOf, T_proto}

\* String(row[fieldName] || 'Unknown')
GroupKey(row, name) ==
    LET value == Get(row, name)
    IN  JsString(IF Truthy(value) THEN value ELSE Str(T_Unknown))

\* the forEach body for the rows still to come; groups is a function from
\* the own keys of the object to row lists
RECURSIVE GroupInto(_, _, _)
GroupInto(groups, rows, name) ==
    IF rows = <<>> THEN Completed(groups)
    ELSE LET key == GroupKey(Head(rows), name)
         IN  IF key \in DOMAIN groups
             THEN GroupInto([groups EXCEPT ![key] = Append(@, Head(rows))], Tail(rows), name)
             ELSE IF key \in ObjectPrototypeKeys
             THEN Threw
             ELSE GroupInto([k \in (DOMAIN groups) \cup {key} |->
                                IF k = key THEN <<Head(rows)>> ELSE groups[k]],
                            Tail(rows), name)

\* DataProcessor.groupBy
groupBy(rows, name) == GroupInto(<<>>, rows, name)

\* p / q as a number: an integer when q divides p, a fraction in lowest
\* terms otherwise
RECURSIVE Gcd(_, _)
Gcd(a, b) == IF b = 0 THEN a ELSE Gcd(b, a % b)

Abs(n) == IF n < 0 THEN -n ELSE n

Quotient(p, q) ==
    IF p % q = 0 THEN Num(p \div q)
    ELSE LET g == Gcd(Abs(p), q)
         IN  [k |-> "fraction", n |-> p \div g, d |-> q \div g]

\* a faulty variant: a cell that does not parse counts as 0
ParsedValuesOrZero(rows, name) ==
    [i \in 1..Len(rows) |->
        LET v == parseFloat(Get(rows[i], name)) IN IF isNaN(v) THEN 0 ELSE v.n]

\* the parsed cells of a field that are numbers, in row order
RECURSIVE ParsedValues(_, _)
ParsedValues(rows, name) ==
    IF rows = <<>> THEN <<>>
    ELSE LET v == parseFloat(Get(Head(rows), name))
         IN  (IF isNaN(v) THEN <<>> ELSE <<v.n>>) \o ParsedValues(Tail(rows), name)

RECURSIVE SumOf(_)
SumOf(ns) == IF ns = <<>> THEN 0 ELSE Head(ns) + SumOf(Tail(ns))

\* Math.min(...ns), Math.max(...ns) of a non-empty list
MinOf(ns) == CHOOSE x \in {ns[i] : i \in 1..Len(ns)} : \A i \in 1..Len(ns) : x <= ns[i]
MaxOf(ns) == CHOOSE x \in {ns[i] : i \in 1..Len(ns)} : \A i \in 1..Len(ns) : x >= ns[i]

\* the switch on operation for one group
Reduce(groupData, valueField, operation) ==
    LET values == ParsedValues(groupData, valueField)
    IN  CASE operation = "count" -> Num(Len(groupData))
          [] operation = "sum"   -> Num(SumOf(values))
          [] operation = "avg"   -> (IF Len(values) > 0
                                     THEN Quotient(SumOf(values), Len(values)) ELSE Num(0))
          [] operation = "min"   -> (IF Len(values) > 0 THEN Num(MinOf(values)) ELSE Num(0))
          [] operation = "max"   -> (IF Len(values) > 0 THEN Num(MaxOf(values)) ELSE Num(0))

\* DataProcessor.aggregate
aggregate(rows, groupField, valueField, operation) ==
    LET groups == groupBy(rows, groupField)
    IN  IF groups.threw THEN Threw
        ELSE Completed([key \in DOMAIN groups.value |->
                           Reduce(groups.value[key], valueField, operation)])

Operations == {"sum", "avg", "count", "min", "max"}

(***************************************************************************)
(* Inputs of the grouping specification                                    *)
(***************************************************************************)
MaxGroupRows == 3

F_n == <<"n">>

GroupCells ==
    { Null, Str(<<>>), Str(<<"x">>), Str(T_Unknown), Str(T_constructor),
      Num(0), Num(5), Str(<<"5">>), Bool(FALSE) }

ValueCells == { Str(<<"1", "0">>), Str(<<"a", "b", "c">>), Num(20) }

\* rows with a group cell under key a (or no key a) and a value cell under n
GroupInputRows ==
    {[n \in {F_a, F_n} |-> IF n = F_a THEN c ELSE v] : c \in GroupCells, v \in {Str(<<"1", "0">>)}}
        \cup {[n \in {F_n} |-> v] : v \in ValueCells}

InitGroup ==
    /\ data \in SeqsUpTo(GroupInputRows, MaxGroupRows)
    /\ fields = <<Field(F_a, "string"), Field(F_n, "number")>>
    /\ tz = 0
    /\ last = NoCall
    /\ prev = NoCall
    /\ ui = InitialUi

\* processor.groupBy(name)
GroupBy(name) ==
    /\ last' = Outcome("groupBy", <<name>>, groupBy(data, name))
    /\ UNCHANGED <<data, fields, tz, prev, ui>>

\* processor.aggregate(groupField, valueField, operation)
Aggregate(groupField, valueField, operation) ==
    /\ last' = Outcome("aggregate", <<groupField, valueField, operation>>,
                       aggregate(data, groupField, valueField, operation))
    /\ UNCHANGED <<data, fields, tz, prev, ui>>

NextGroup ==
    \/ \E name \in {F_a, F_b} : FirstCall /\ GroupBy(name)
    \/ \E g \in {F_a, F_b}, op \in Operations : FirstCall /\ Aggregate(g, F_n, op)

SpecGroup == InitGroup /\ [][NextGroup]_vars

\* the sum of the values of a mapping from keys to numbers
RECURSIVE SumValues(_, _)
SumValues(f, keys) ==
    IF keys = {} THEN 0
    ELSE LET key == CHOOSE x \in keys : TRUE
         IN  f[key].n + SumValues(f, keys \ {key})

\* C4: aggregate count invariant: the values of aggregate(g, v, 'count')
\* sum to the number of rows, for any dataset and grouping field
AggregateCountSum ==
    (last.op = "aggregate" /\ last.args[3] = "count") =>
        /\ ~last.threw
        /\ SumValues(last.ret, DOMAIN last.ret) = Len(data)

\* the key the claim gives a row: "Unknown" for a missing cell, the cell's
\* string form otherwise
ClaimedKey(row, name) ==
    IF IsMissing(Get(row, name)) THEN T_Unknown ELSE JsString(Get(row, name))

\* the number of positions of rows that hold row
Occurrences(rows, row) == Cardinality({i \in 1..Len(rows) : rows[i] = row})

\* C9: groupBy is a total partition keyed by the cell: every row is in
\* exactly one group, the group of "Unknown" when its cell is missing and of
\* the cell's string form otherwise (0 and false included)
GroupByPartition ==
    last.op = "groupBy" =>
        /\ ~last.threw
        /\ \A i \in 1..Len(data) :
              LET key == ClaimedKey(data[i], last.args[1])
              IN  \A k \in DOMAIN last.ret :
                      Occurrences(last.ret[k], data[i])
                          = (IF k = key THEN Occurrences(data, data[i]) ELSE 0)

\* the rows of the group a row belongs to: the rows with the same key
ClaimedGroup(rows, row, name) ==
    LET Same(r) == ClaimedKey(r, name) = ClaimedKey(row, name)
    IN  SelectSeq(rows, Same)

\* the mean of the cells of a field that parse as numbers, 0 when none does
ClaimedMean(rows, name) ==
    LET values == ParsedValues(rows, name)
    IN  IF Len(values) = 0 THEN Num(0) ELSE Quotient(SumOf(values), Len(values))

\* C11: aggregate(g, v, 'avg') gives every group the mean of its cells of v
\* that parse as numbers, and 0 to a group in which no cell parses
AggregateAvg ==
    (last.op = "aggregate" /\ last.args[3] = "avg") =>
        /\ ~last.threw
        /\ \A i \in 1..Len(data) :
              LET key == ClaimedKey(data[i], last.args[1])
              IN  /\ key \in DOMAIN last.ret
                  /\ last.ret[key]
                        = ClaimedMean(ClaimedGroup(data, data[i], last.args[1]), last.args[2])

\* the smallest (largest) of the cells of a field that parse as numbers, 0
\* when none does
ClaimedExtremum(rows, name, operation) ==
    LET values == ParsedValues(rows, name)
        set    == {values[i] : i \in 1..Len(values)}
    IN  IF set = {} THEN Num(0)
        ELSE IF operation = "min" THEN Num(CHOOSE x \in set : \A y \in set : x <= y)
        ELSE Num(CHOOSE x \in set : \A y \in set : x >= y)

\* C20: aggregate(g, v, 'min') and aggregate(g, v, 'max') give every group
\* the smallest and the largest of its cells of v that parse as numbers, and
\* 0 to a group in which no cell parses
AggregateMinMax ==
    (last.op = "aggregate" /\ last.args[3] \in {"min", "max"}) =>
        /\ ~last.threw
        /\ \A i \in 1..Len(data) :
              LET key == ClaimedKey(data[i], last.args[1])
              IN  /\ key \in DOMAIN last.ret
                  /\ last.ret[key]
                        = ClaimedExtremum(ClaimedGroup(data, data[i], last.args[1]),
                                          last.args[2], last.args[3])

(***************************************************************************)
(* export(data, format) and the ingestion layer's parseCSV(text)           *)
(***************************************************************************)
\* the order in which a row's own keys were inserted
KeyOrder == <<F_a, F_b, F_n>>

\* Object.keys(row)
Keys(row) ==
    LET Own(name) == name \in DOMAIN row
    IN  SelectSeq(KeyOrder, Own)

\* texts.join(sep)
RECURSIVE Join(_, _)
Join(texts, sep) ==
    IF texts = <<>> THEN <<>>
    ELSE IF Len(texts) = 1 THEN texts[1]
    ELSE texts[1] \o sep \o Join(Tail(texts), sep)

\* a faulty variant: the quotes inside a quoted cell are left single
KeepQuotes(s) == s

\* value.replace(/"/g, '""')
RECURSIVE DoubleQuotes(_)
DoubleQuotes(s) ==
    IF s = <<>> THEN <<>>
    ELSE (IF Head(s) = "\"" THEN <<"\"", "\"">> ELSE <<Head(s)>>) \o DoubleQuotes(Tail(s))

HasChar(s, c) == \E i \in 1..Len(s) : s[i] = c

\* what values.join(',') writes for one element: nothing for null and
\* undefined, the string form otherwise
JoinText(v) == IF v = Null \/ v = Undef THEN <<>> ELSE JsString(v)

\* one cell of a CSV line
CsvCell(value) ==
    IF IsString(value) /\ (HasChar(value.s, ",") \/ HasChar(value.s, "\""))
    THEN <<"\"">> \o DoubleQuotes(value.s) \o <<"\"">>
    ELSE JoinText(value)

CsvLine(row, headers) ==
    Join([h \in 1..Len(headers) |-> CsvCell(Get(row, headers[h]))], <<",">>)

ExportCsv(rows) ==
    IF Len(rows) = 0 THEN <<>>
    ELSE LET headers == Keys(rows[1])
         IN  Join(<<Join(headers, <<",">>)>> \o [i \in 1..Len(rows) |-> CsvLine(rows[i], headers)],
                  <<"\n">>)

\* the escapes of JSON.stringify for a string of the model's alphabet
RECURSIVE JsonEscape(_)
JsonEscape(s) ==
    IF s = <<>> THEN <<>>
    ELSE (CASE Head(s) = "\"" -> <<"\\", "\"">>
            [] Head(s) = "\n" -> <<"\\", "n">>
            [] Head(s) = "\t" -> <<"\\", "t">>
            [] Head(s) = "\r" -> <<"\\", "r">>
            [] OTHER          -> <<Head(s)>>) \o JsonEscape(Tail(s))

JsonQuote(s) == <<"\"">> \o JsonEscape(s) \o <<"\"">>

JsonValue(v) == IF IsString(v) THEN JsonQuote(v.s) ELSE JsString(v)

\* the members JSON.stringify writes: a key whose value is undefined is
\* left out
JsonKeys(row) ==
    LET Written(name) == name \in DOMAIN row /\ row[name] # Undef
    IN  SelectSeq(KeyOrder, Written)

JsonRow(row) ==
    LET keys == JsonKeys(row)
    IN  IF keys = <<>> THEN <<" ", " ", "{", "}">>
        ELSE <<" ", " ", "{", "\n">>
             \o Join([i \in 1..Len(keys) |->
                        <<" ", " ", " ", " ">> \o JsonQuote(keys[i]) \o <<":", " ">>
                            \o JsonValue(row[keys[i]])], <<",", "\n">>)
             \o <<"\n", " ", " ", "}">>

\* JSON.stringify(data, null, 2)
ExportJson(rows) ==
    IF Len(rows) = 0 THEN <<"[", "]">>
    ELSE <<"[", "\n">> \o Join([i \in 1..Len(rows) |-> JsonRow(rows[i])], <<",", "\n">>)
             \o <<"\n", "]">>

\* DataProcessor.export
export(rows, format) == IF format = "json" THEN ExportJson(rows) ELSE ExportCsv(rows)

\* text.split(sep) for a one-character separator
RECURSIVE Split(_, _)
Split(s, sep) ==
    IF \E i \in 1..Len(s) : s[i] = sep
    THEN LET i == CHOOSE k \in 1..Len(s) : s[k] = sep /\ \A j \in 1..(k - 1) : s[j] # sep
         IN  <<SubSeq(s, 1, i - 1)>> \o Split(SubSeq(s, i + 1, Len(s)), sep)
    ELSE <<s>>

\* v.replace(/"/g, '')
RECURSIVE StripQuotes(_)
StripQuotes(s) ==
    IF s = <<>> THEN <<>>
    ELSE (IF Head(s) = "\"" THEN <<>> ELSE <<Head(s)>>) \o StripQuotes(Tail(s))

\* line.split(',').map(v => v.trim().replace(/"/g, ''))
CsvValues(line) ==
    LET parts == Split(line, ",")
    IN  [i \in 1..Len(parts) |-> StripQuotes(Trim(parts[i]))]

\* the header's column in a line: forEach assigns row[header] in header
\* order, so the last column of that name stays
LastIndexOf(headers, name) ==
    CHOOSE i \in 1..Len(headers) :
        headers[i] = name /\ \A j \in (i + 1)..Len(headers) : headers[j] # name

\* row[header] = values[index] || ''
CsvRow(headers, values) ==
    [name \in {headers[i] : i \in 1..Len(headers)} |->
        LET i == LastIndexOf(headers, name)
        IN  Str(IF i <= Len(values) THEN values[i] ELSE <<>>)]

\* parseCSV
parseCSV(text) ==
    LET lines   == Split(Trim(text), "\n")
        headers == CsvValues(lines[1])
    IN  [i \in 1..(Len(lines) - 1) |-> CsvRow(headers, CsvValues(lines[i + 1]))]

(***************************************************************************)
(* Inputs of the export specification                                      *)
(***************************************************************************)
MaxCsvRows == 2

\* cells without newlines: plain text, text with a comma, text with a
\* double quote, a number, null
CsvCells ==
    { Str(<<"x">>), Str(<<"a", ",", "b">>), Str(<<"q", "\"", "r">>), Num(5), Null }

\* rows with both keys, and a row with the key b only
CsvInputRows ==
    {[n \in {F_a, F_b} |-> IF n = F_a THEN c ELSE d] : c, d \in CsvCells}
        \cup {[n \in {F_b} |-> Str(<<"x">>)]}

InitCsv ==
    /\ data \in SeqsUpTo(CsvInputRows, MaxCsvRows)
    /\ fields = <<Field(F_a, "string"), Field(F_b, "string")>>
    /\ tz = 0
    /\ last = NoCall
    /\ prev = NoCall
    /\ ui = InitialUi

\* processor.export(this.data, format)
Export(format) ==
    /\ last' = Call("export", <<format>>, Str(export(data, format)))
    /\ UNCHANGED <<data, fields, tz, prev, ui>>

\* parseCSV(text) on the text a CSV export returned
ParseCSV ==
    /\ last.op = "export" /\ last.args = <<"csv">>
    /\ prev' = last
    /\ last' = Call("parseCSV", <<last.ret>>, parseCSV(last.ret.s))
    /\ UNCHANGED <<data, fields, tz, ui>>

NextCsv == (\E format \in {"csv", "json"} : FirstCall /\ Export(format)) \/ ParseCSV

SpecCsv == InitCsv /\ [][NextCsv]_vars

\* a parsed cell holds the value of the exported cell: both missing, or the
\* text of the cell's string form
SameCellValue(cell, parsed) ==
    \/ IsMissing(cell) /\ IsMissing(parsed)
    \/ ~IsMissing(cell) /\ parsed = Str(JsString(cell))

\* C5: CSV round trip: parseCSV of the CSV export of rows without embedded
\* newlines gives back the rows' cell values, commas and quotes included
CsvRoundTrip ==
    (last.op = "parseCSV" /\ prev.op = "export") =>
        /\ Len(last.ret) = Len(data)
        /\ \A i \in 1..Len(data) : \A name \in DOMAIN data[i] :
              SameCellValue(data[i][name], Get(last.ret[i], name))

(***************************************************************************)
(* getStats(), getUniqueValues(fieldName), getNumericStats(fieldName)      *)
(***************************************************************************)
CountFields(fs, type) == Cardinality({i \in 1..Len(fs) : fs[i].type = type})

\* a faulty variant: a field absent from a row is not counted
MissingAmongOwnKeys(rows, fs) ==
    Cardinality({<<i, j>> \in (1..Len(rows)) \X (1..Len(fs)) :
                    /\ fs[j].name \in DOMAIN rows[i]
                    /\ IsMissing(Get(rows[i], fs[j].name))})

\* the (row, field) pairs whose cell is missing
MissingValues(rows, fs) ==
    Cardinality({<<i, j>> \in (1..Len(rows)) \X (1..Len(fs)) :
                    IsMissing(Get(rows[i], fs[j].name))})

\* DataProcessor.getStats
getStats(rows, fs) ==
    [ totalRows     |-> Len(rows),
      totalColumns  |-> Len(fs),
      numericFields |-> CountFields(fs, "number"),
      textFields    |-> CountFields(fs, "string"),
      dateFields    |-> CountFields(fs, "date"),
      missingValues |-> MissingValues(rows, fs) ]

\* [...new Set(values)]: each value once, in order of first occurrence
RECURSIVE Distinct(_)
Distinct(vs) ==
    IF vs = <<>> THEN <<>>
    ELSE LET rest == Distinct(SubSeq(vs, 1, Len(vs) - 1))
             v    == vs[Len(vs)]
         IN  IF \E i \in 1..Len(rest) : rest[i] = v THEN rest ELSE Append(rest, v)

\* DataProcessor.getUniqueValues
getUniqueValues(rows, name) ==
    LET Present(v) == ~IsMissing(v)
    IN  SelectSeq(Distinct([i \in 1..Len(rows) |-> Get(rows[i], name)]), Present)

\* a faulty variant: the values stay in row order
Unsorted(ns) == ns

\* ns.sort((a, b) => a - b): the ascending order of a list of numbers
RECURSIVE Ascending(_)
Ascending(ns) ==
    IF ns = <<>> THEN <<>>
    ELSE LET m == MinOf(ns)
             i == CHOOSE k \in 1..Len(ns) : ns[k] = m
         IN  <<m>> \o Ascending(SubSeq(ns, 1, i - 1) \o SubSeq(ns, i + 1, Len(ns)))

\* DataProcessor.getNumericStats
getNumericStats(rows, fs, name) ==
    IF TypeOf(fs, name) # "number" THEN Null
    ELSE LET values == Ascending(ParsedValues(rows, name))
             n      == Len(values)
         IN  IF n = 0 THEN Null
             ELSE [ min    |-> Num(values[1]),
                    max    |-> Num(values[n]),
                    avg    |-> Quotient(SumOf(values), n),
                    median |-> IF n % 2 = 0
                               THEN Quotient(values[n \div 2] + values[(n \div 2) + 1], 2)
                               ELSE Num(values[(n \div 2) + 1]) ]

(***************************************************************************)
(* sample(size, method)                                                    *)
(***************************************************************************)
\* the index a relative start or end of slice stands for
SliceIndex(k, len) == IF k < 0 THEN (IF len + k < 0 THEN 0 ELSE len + k)
                      ELSE (IF k > len THEN len ELSE k)

\* rows.slice(start, end)
Slice(rows, start, end) ==
    SubSeq(rows, SliceIndex(start, Len(rows)) + 1, SliceIndex(end, Len(rows)))

\* rows.slice(start)
SliceFrom(rows, start) == Slice(rows, start, Len(rows))

\* a faulty variant: the random method draws each row independently
SampleWithReplacement(rows, size, method) ==
    IF size >= Len(rows) THEN {rows}
    ELSE CASE method = "first" -> {Slice(rows, 0, size)}
           [] method = "last"  -> {SliceFrom(rows, -size)}
           [] OTHER            -> {[i \in 1..size |-> rows[f[i]]] :
                                       f \in [1..size -> 1..Len(rows)]}

\* DataProcessor.sample: the sequences it may return.  The comparator of
\* the random method is 0.5 - Math.random(), so the shuffle is some order
\* of the rows.
sample(rows, size, method) ==
    IF size >= Len(rows) THEN {rows}
    ELSE CASE method = "first" -> {Slice(rows, 0, size)}
           [] method = "last"  -> {SliceFrom(rows, -size)}
           [] OTHER            -> {Slice(Permute(rows, p), 0, size) :
                                       p \in IndexOrders(Len(rows))}

(***************************************************************************)
(* The processor as a whole: any sequence of calls on one dataset          *)
(***************************************************************************)
MaxRows == 2

\* rows over a text key a and a value key n
Rows ==
    { [n \in {F_a, F_n} |-> IF n = F_a THEN Str(<<"x">>) ELSE Str(<<"1", "0">>)],
      [n \in {F_a, F_n} |-> IF n = F_a THEN Str(<<"y", ",", "z">>) ELSE Num(5)],
      [n \in {F_a, F_n} |-> IF n = F_a THEN Str(T_constructor) ELSE Str(<<"a", "b", "c">>)],
      [n \in {F_a, F_n} |-> IF n = F_a THEN Num(0) ELSE Str(D_iso)],
      [n \in {F_n} |-> Null] }

FilterLists ==
    { <<>>,
      <<Condition(F_a, "not_empty", Undef, Undef)>>,
      <<Condition(F_n, "greater", Str(<<"3">>), Undef),
        Condition(F_a, "contains", Str(<<"X">>), Undef)>> }

SortLists ==
    { <<>>, <<SortCondition(F_n, "desc")>>,
      <<SortCondition(F_a, "asc"), SortCondition(F_n, "asc")>> }

Init ==
    /\ data \in SeqsUpTo(Rows, MaxRows)
    /\ \E t \in FieldTypes : fields = <<Field(F_a, "string"), Field(F_n, t)>>
    /\ tz = 0
    /\ last = NoCall
    /\ prev = NoCall
    /\ ui = InitialUi

\* processor.getStats()
GetStats ==
    /\ last' = Call("getStats", <<>>, getStats(data, fields))
    /\ UNCHANGED <<data, fields, tz, prev, ui>>

\* processor.getUniqueValues(name)
GetUniqueValues(name) ==
    /\ last' = Call("getUniqueValues", <<name>>, getUniqueValues(data, name))
    /\ UNCHANGED <<data, fields, tz, prev, ui>>

\* processor.getNumericStats(name)
GetNumericStats(name) ==
    /\ last' = Call("getNumericStats", <<name>>, getNumericStats(data, fields, name))
    /\ UNCHANGED <<data, fields, tz, prev, ui>>

\* processor.sample(size, method)
Sample(size, method) ==
    /\ \E out \in sample(data, size, method) : last' = Call("sample", <<size, method>>, out)
    /\ UNCHANGED <<data, fields, tz, prev, ui>>

Next ==
    \/ GetStats
    \/ \E name \in {F_a, F_n} : GetUniqueValues(name)
    \/ \E name \in {F_a, F_n, F_b} : GetNumericStats(name)
    \/ \E conds \in FilterLists : Filter(conds)
    \/ \E conds \in SortLists : Sort(conds)
    \/ \E name \in {F_a, F_n} : GroupBy(name)
    \/ \E op \in Operations : Aggregate(F_a, F_n, op)
    \/ \E size \in 0..MaxRows, method \in {"random", "first", "last"} : Sample(size, method)
    \/ Clean
    \/ \E format \in {"csv", "json"} : Export(format)

Spec == Init /\ [][Next]_vars

\* C6: the base dataset is never mutated: no call changes the row sequence
\* or the field descriptors the processor was constructed with
BaseNeverMutated == [][data' = data /\ fields' = fields]_vars

\* a sort of the processor's own rows returned them in another order
BaseNeverMutatedWitness ==
    /\ last.op = "sort"
    /\ Len(data) = 2
    /\ last.ret = <<data[2], data[1]>>
    /\ last.ret # data

\* C7: no core operation raises, whatever the cell contents are
NoOperationRaises == ~last.threw

(***************************************************************************)
(* getNumericStats(fieldName) over number, text and missing cells          *)
(***************************************************************************)
MaxStatRows == 4

StatCells ==
    { Str(<<"1", "0">>), Num(5), Str(<<"-", "3">>), Str(<<" ", "7", "x">>),
      Str(<<"a", "b", "c">>), Null }

\* rows with a cell under key n, and the row without the key
StatInputRows == {[name \in {F_n} |-> c] : c \in StatCells} \cup {<<>>}

\* n declared with each type, and not declared at all
StatFields == {<<Field(F_n, t)>> : t \in FieldTypes} \cup {<<Field(F_a, "number")>>}

InitStats ==
    /\ data \in SeqsUpTo(StatInputRows, MaxStatRows)
    /\ fields \in StatFields
    /\ tz = 0
    /\ last = NoCall
    /\ prev = NoCall
    /\ ui = InitialUi

NextStats == FirstCall /\ GetNumericStats(F_n)

SpecStats == InitStats /\ [][NextStats]_vars

\* the cells of a field that parse as numbers, as numbers, in row order
ParsedCells(rows, name) ==
    LET cells == [i \in 1..Len(rows) |-> parseFloat(Get(rows[i], name))]
        IsNumber(v) == ~isNaN(v)
        parsed == SelectSeq(cells, IsNumber)
    IN  [i \in 1..Len(parsed) |-> parsed[i].n]

Declared(fs, name) == \E i \in 1..Len(fs) : fs[i].name = name

DeclaredNumber(fs, name) == \E i \in 1..Len(fs) : fs[i].name = name /\ fs[i].type = "number"

\* C12: getNumericStats returns null exactly when the field is not declared,
\* is declared with another type than number, or has no cell that parses as
\* a number; otherwise it returns a {min, max, avg, median} result
NumericStatsUnavailable ==
    last.op = "getNumericStats" =>
        LET name == last.args[1]
            unavailable == \/ ~Declared(fields, name)
                           \/ ~DeclaredNumber(fields, name)
                           \/ ParsedCells(data, name) = <<>>
        IN  /\ unavailable => last.ret = Null
            /\ ~unavailable => DOMAIN last.ret = {"min", "max", "avg", "median"}

\* null for a number field whose two cells are a text and a missing cell
NumericStatsUnavailableWitness ==
    /\ last.op = "getNumericStats"
    /\ DeclaredNumber(fields, F_n)
    /\ Len(data) = 2
    /\ Get(data[1], F_n) = Str(<<"a", "b", "c">>)
    /\ Get(data[2], F_n) = Null
    /\ last.ret = Null

\* the k-th smallest of a list of numbers
KthSmallest(ns, k) ==
    CHOOSE x \in {ns[i] : i \in 1..Len(ns)} :
        /\ Cardinality({i \in 1..Len(ns) : ns[i] < x}) < k
        /\ Cardinality({i \in 1..Len(ns) : ns[i] <= x}) >= k

\* C13: for a number field with a parsable cell, min and max are the
\* smallest and largest parsed value and median follows the sorted-median
\* rule; unparsable cells take no part
NumericStatsValues ==
    (last.op = "getNumericStats" /\ DeclaredNumber(fields, last.args[1])
        /\ ParsedCells(data, last.args[1]) # <<>>) =>
        LET ns == ParsedCells(data, last.args[1])
            n  == Len(ns)
        IN  /\ last.ret # Null
            /\ last.ret.min = Num(KthSmallest(ns, 1))
            /\ last.ret.max = Num(KthSmallest(ns, n))
            /\ n % 2 = 1 => last.ret.median = Num(KthSmallest(ns, (n + 1) \div 2))
            /\ n % 2 = 0 => last.ret.median
                              = Quotient(KthSmallest(ns, n \div 2)
                                            + KthSmallest(ns, (n \div 2) + 1), 2)

\* four rows, two of them unparsable, the parsable ones out of order: the
\* median is the mean of the two parsed values
NumericStatsValuesWitness ==
    /\ last.op = "getNumericStats"
    /\ Len(data) = 4
    /\ ParsedCells(data, F_n) = <<10, 5>>
    /\ last.ret # Null
    /\ last.ret.min = Num(5) /\ last.ret.max = Num(10)
    /\ last.ret.median = Quotient(15, 2)

(***************************************************************************)
(* Properties of export(data, 'csv')                                       *)
(***************************************************************************)
\* the number of double quotes before position i of s
QuotesBefore(s, i) == Cardinality({j \in 1..(i - 1) : s[j] = "\""})

\* s with each double quote written twice
Doubled(s) ==
    [j \in 1..(Len(s) + QuotesBefore(s, Len(s) + 1)) |->
        s[CHOOSE i \in 1..Len(s) :
              \/ j = i + QuotesBefore(s, i)
              \/ s[i] = "\"" /\ j = i + QuotesBefore(s, i) + 1]]

\* a cell as the CSV text shows it: quoted, with the quotes doubled, when it
\* is a string with a comma or a double quote, as it is otherwise
Emitted(value) ==
    IF IsString(value) /\ \E i \in 1..Len(value.s) : value.s[i] \in {",", "\""}
    THEN <<"\"">> \o Doubled(value.s) \o <<"\"">>
    ELSE JoinText(value)

\* C15: export(rows, 'csv') writes the keys of the first row, then one line
\* per row in that key order; a string cell with a comma or a double quote
\* is wrapped in double quotes with its quotes doubled, any other cell is
\* written unquoted
ExportCsvQuoting ==
    (last.op = "export" /\ last.args = <<"csv">> /\ data # <<>>) =>
        LET keys == Keys(data[1])
            Line(row) == Join([h \in 1..Len(keys) |-> Emitted(Get(row, keys[h]))], <<",">>)
        IN  last.ret = Str(Join(<<Join(keys, <<",">>)>> \o [i \in 1..Len(data) |-> Line(data[i])],
                                <<"\n">>))

\* a cell with a double quote and a cell with a comma in the second row
ExportCsvQuotingWitness ==
    /\ last.op = "export" /\ last.args = <<"csv">>
    /\ Len(data) = 2
    /\ Get(data[2], F_a) = Str(<<"q", "\"", "r">>)
    /\ Get(data[2], F_b) = Str(<<"a", ",", "b">>)
    /\ Get(data[1], F_a) = Num(5)
    /\ HasChar(last.ret.s, "\n")

(***************************************************************************)
(* Properties of sort(data, conditions)                                    *)
(***************************************************************************)
\* the condition that decides two rows: the first one whose comparison is
\* not 0; 0 when every condition ties
DecidingCondition(a, b, conds, fs) ==
    LET Differ(k) == Comparison(Get(a, conds[k].field), Get(b, conds[k].field),
                                TypeOf(fs, conds[k].field)) # Num(0)
    IN  IF \E k \in 1..Len(conds) : Differ(k)
        THEN CHOOSE k \in 1..Len(conds) : Differ(k) /\ \A m \in 1..(k - 1) : ~Differ(m)
        ELSE 0

\* a comes before b under the deciding condition: its comparison is
\* negative for asc, positive for desc
OrderedBefore(a, b, conds, fs) ==
    LET k == DecidingCondition(a, b, conds, fs)
    IN  /\ k # 0
        /\ LET v == Comparison(Get(a, conds[k].field), Get(b, conds[k].field),
                               TypeOf(fs, conds[k].field))
           IN  /\ IsNum(v)
               /\ IF conds[k].direction = "asc" THEN v.n < 0 ELSE v.n > 0

\* C18: multi-key sort is lexicographic: the relative order of two rows in
\* the output is decided by the first condition on which they do not
\* compare equal, ascending for asc and reversed for desc
SortLexicographic ==
    last.op = "sort" =>
        \A i, j \in 1..Len(data) :
            OrderedBefore(data[i], data[j], last.args, fields)
                => PositionIn(last.ret, data[i]) < PositionIn(last.ret, data[j])

\* s holds the rows of t, each as many times as t does
IsPermutationOf(s, t) ==
    /\ Len(s) = Len(t)
    /\ \A i \in 1..Len(t) : Occurrences(s, t[i]) = Occurrences(t, t[i])

\* C19: sort returns a permutation of the rows and leaves the sequence
\* passed in, the processor's own dataset, in its original order
SortPermutes ==
    [][last'.op = "sort" => (IsPermutationOf(last'.ret, data) /\ data' = data)]_vars

\* a descending sort on the number field returned two distinct rows in
\* the reverse of their order
SortPermutesWitness ==
    /\ last.op = "sort"
    /\ last.args = <<SortCondition(F_n, "desc")>>
    /\ TypeOf(fields, F_n) = "number"
    /\ Len(data) = 2
    /\ data[1] # data[2]
    /\ last.ret = <<data[2], data[1]>>
(***************************************************************************)
(* getStats() and sample(size, method) over missing and absent cells       *)
(***************************************************************************)
MaxReadRows == 3

ReadCells == { Null, Undef, Str(<<>>), Str(<<"x">>), Num(0) }

\* rows with a cell under key a, and the row without the key
ReadInputRows == {[n \in {F_a} |-> c] : c \in ReadCells} \cup {[n \in {F_b} |-> Num(1)]}

InitRead ==
    /\ data \in SeqsUpTo(ReadInputRows, MaxReadRows)
    /\ fields \in {<<Field(F_a, "string")>>, <<Field(F_a, "string"), Field(F_n, "number")>>}
    /\ tz = 0
    /\ last = NoCall
    /\ prev = NoCall
    /\ ui = InitialUi

NextRead ==
    \/ FirstCall /\ GetStats
    \/ \E size \in 0..(MaxReadRows + 1), method \in {"random", "first", "last"} :
          FirstCall /\ Sample(size, method)

SpecRead == InitRead /\ [][NextRead]_vars

\* the cells the claims call missing
MissingCell(row, name) ==
    \/ name \notin DOMAIN row
    \/ row[name] \in {Null, Undef, Str(<<>>)}

\* the missing cells of the first k rows, counted row by row
RECURSIVE MissingUpTo(_, _, _)
MissingUpTo(rows, fs, k) ==
    IF k = 0 THEN 0
    ELSE MissingUpTo(rows, fs, k - 1)
         + Cardinality({j \in 1..Len(fs) : MissingCell(rows[k], fs[j].name)})

\* C21: getStats().missingValues is the number of (row, declared field)
\* pairs whose cell is missing, an absent field counting like a null,
\* undefined or empty-string cell; totalRows and totalColumns are the row
\* count and the field count
StatsCountMissing ==
    last.op = "getStats" =>
        /\ last.ret.missingValues = MissingUpTo(data, fields, Len(data))
        /\ last.ret.totalRows = Len(data)
        /\ last.ret.totalColumns = Len(fields)

\* a row without key a, a null cell and a present cell under two fields
StatsCountMissingWitness ==
    /\ last.op = "getStats"
    /\ Len(data) = 3
    /\ Len(fields) = 2
    /\ F_a \notin DOMAIN data[1]
    /\ data[2] = [n \in {F_a} |-> Null]
    /\ data[3] = [n \in {F_a} |-> Str(<<"x">>)]
    /\ last.ret.missingValues = 5

Min(a, b) == IF a < b THEN a ELSE b

\* C22: for the first and last methods sample returns exactly
\* min(n, rowCount) rows: the first n rows in order for first, the last n
\* rows in order for last, all rows when n >= rowCount, none when n = 0
SampleSlice ==
    (last.op = "sample" /\ last.args[2] \in {"first", "last"}) =>
        LET n   == last.args[1]
            len == Len(data)
            m   == Min(n, len)
        IN  /\ Len(last.ret) = m
            /\ last.args[2] = "first" => last.ret = SubSeq(data, 1, m)
            /\ last.args[2] = "last"  => last.ret = SubSeq(data, len - m + 1, len)

\* C23: for 0 <= n < rowCount the random method returns exactly n rows,
\* each a row of the dataset, no dataset position chosen twice
SampleRandomDistinct ==
    (last.op = "sample" /\ last.args[2] = "random" /\ last.args[1] < Len(data)) =>
        LET n == last.args[1]
        IN  /\ Len(last.ret) = n
            /\ \E f \in [1..n -> 1..Len(data)] :
                  /\ \A i, j \in 1..n : f[i] = f[j] => i = j
                  /\ \A i \in 1..n : last.ret[i] = data[f[i]]

\* two of three different rows were drawn, the third row first
SampleRandomDistinctWitness ==
    /\ last.op = "sample"
    /\ last.args = <<2, "random">>
    /\ Len(data) = 3
    /\ data[1] # data[2] /\ data[1] # data[3] /\ data[2] # data[3]
    /\ last.ret = <<data[3], data[1]>>

\* C30: sort is idempotent: sorting the rows a sort returned, by the same
\* conditions, returns the same sequence
SortIdempotent ==
    (last.op = "sort" /\ prev.op = "sort" /\ last.args = prev.args) =>
        last.ret = prev.ret

(***************************************************************************)
(* The ingestion layer's analyzeFields(data): field type inference         *)
(***************************************************************************)
\* data.slice(0, 100): the rows the inference looks at
SampleSize == 100

\* text.match(/\d{4}-\d{2}-\d{2}|\d{2}\/\d{2}\/\d{4}/): the pattern is not
\* anchored, so any ten characters of the text may match
MatchesDatePattern(s) ==
    \E i \in 1..Len(s) :
        /\ i + 9 <= Len(s)
        /\ \/ IsIsoShape(SubSeq(s, i, i + 9))
           \/ IsSlashShape(SubSeq(s, i, i + 9))

\* !isNaN(Number(v))
IsNumericValue(v) == ~isNaN(ToNumber(v))

\* !isNaN(new Date(v).getTime()) && v.toString().match(pattern)
IsDateValue(v) == ~isNaN(DateTime(v)) /\ MatchesDatePattern(JsString(v))

\* a faulty variant: a column at exactly 80% is promoted
ExceedsOrEqual(count, total) == total > 0 /\ 5 * count >= 4 * total

\* count / total > 0.8; 0 / 0 is NaN, and NaN > 0.8 is false
Exceeds(count, total) == total > 0 /\ 5 * count > 4 * total

\* the type analyzeFields gives a column with these sampled values
InferType(values) ==
    LET Present(v)    == ~IsMissing(v)
        nonNullValues == SelectSeq(values, Present)
        numericCount  == Len(SelectSeq(nonNullValues, IsNumericValue))
        dateCount     == Len(SelectSeq(nonNullValues, IsDateValue))
        isNumeric     == Exceeds(numericCount, Len(nonNullValues))
        isDate        == Exceeds(dateCount, Len(nonNullValues))
    IN  IF isNumeric THEN "number" ELSE IF isDate THEN "date" ELSE "string"

\* analyzeFields
analyzeFields(rows) ==
    IF Len(rows) = 0 THEN <<>>
    ELSE LET keys    == Keys(rows[1])
             sampled == Slice(rows, 0, SampleSize)
         IN  [j \in 1..Len(keys) |->
                Field(keys[j], InferType([i \in 1..Len(sampled) |-> Get(sampled[i], keys[j])]))]

MaxInferRows == 5

InferCells == { Null, Str(<<"7">>), Str(<<"x">>), Str(D_iso), Str(D_invalid) }

\* rows with a cell under key a, and a row with a date under key b only
InferInputRows == {[n \in {F_a} |-> c] : c \in InferCells} \cup {[n \in {F_b} |-> Str(D_slash)]}

\* k1 rows with cell c1, then k2 rows with cell c2, under key a
Column(c1, k1, c2, k2) == [i \in 1..(k1 + k2) |-> [n \in {F_a} |-> IF i <= k1 THEN c1 ELSE c2]]

\* columns longer than the sample: 80 or 81 numeric cells among the
\* first hundred, then numeric cells the inference does not look at
LongInputs ==
    { Column(Str(<<"x">>), k, Str(<<"7">>), 100 + m - k) : k \in {19, 20}, m \in {0, 5} }

InitInfer ==
    /\ data \in SeqsUpTo(InferInputRows, MaxInferRows) \cup LongInputs
    /\ fields = <<>>
    /\ tz = 0
    /\ last = NoCall
    /\ prev = NoCall
    /\ ui = InitialUi

\* fields = analyzeFields(data)
AnalyzeFields ==
    /\ last' = Call("analyzeFields", <<>>, analyzeFields(data))
    /\ UNCHANGED <<data, fields, tz, prev, ui>>

NextInfer == FirstCall /\ AnalyzeFields

SpecInfer == InitInfer /\ [][NextInfer]_vars

\* the sampled rows whose cell under a key is not missing and passes a test
SampledNumeric(rows, name) ==
    {i \in 1..Min(Len(rows), SampleSize) :
        ~IsMissing(Get(rows[i], name)) /\ IsNumericValue(Get(rows[i], name))}

SampledDates(rows, name) ==
    {i \in 1..Min(Len(rows), SampleSize) :
        ~IsMissing(Get(rows[i], name)) /\ IsDateValue(Get(rows[i], name))}

SampledPresent(rows, name) ==
    {i \in 1..Min(Len(rows), SampleSize) : ~IsMissing(Get(rows[i], name))}

\* strictly more than 80% of a positive total
MoreThanFourFifths(part, total) ==
    Cardinality(total) > 0 /\ Cardinality(part) * 100 > Cardinality(total) * 80

ClaimedType(rows, name) ==
    IF MoreThanFourFifths(SampledNumeric(rows, name), SampledPresent(rows, name)) THEN "number"
    ELSE IF MoreThanFourFifths(SampledDates(rows, name), SampledPresent(rows, name)) THEN "date"
    ELSE "string"

RowLimit == 1000

T_csv  == <<".", "c", "s", "v">>
T_json == <<".", "j", "s", "o", "n">>

\* s.endsWith(t)
EndsWith(s, t) == Len(s) >= Len(t) /\ SubSeq(s, Len(s) - Len(t) + 1, Len(s)) = t

\* what parsing the text gave: an array of rows, or another JSON value
JsonArray(rows) == [array |-> TRUE, rows |-> rows]
JsonOther       == [array |-> FALSE, rows |-> <<>>]

NoFile == Null

DataFile(id, name, type, rows, fs) ==
    [id |-> id, name |-> name, type |-> type, data |-> rows, fields |-> fs]

\* dataFile.data.length > 0 on a file that may be null
HasRows(file) == file # NoFile /\ Len(file.data) > 0

\* no effect is pending
Quiescent == ui.pending = {}

\* a faulty variant: the data file keeps every parsed row
StoredAll(rows) == rows

\* data.slice(0, 1000)
Stored(rows) == Slice(rows, 0, RowLimit)

\* App.handleFileUpload: both state hooks are set in one batch; the new
\* file object changes the dependencies of the panel's and the chart's effect
handleFileUpload(u, file) ==
    [u EXCEPT !.currentFile = file, !.processedData = file.data,
              !.loads = @ + 1, !.pending = {"data", "chart"}]

\* a faulty variant: the shell ignores the rows the panel hands over
DropDataUpdate(u, rows) == u

\* App.handleDataUpdate: the shell re-renders and hands the chart panel a
\* new data object unless no file is loaded
handleDataUpdate(u, rows) ==
    [u EXCEPT !.processedData = rows,
              !.pending = IF u.currentFile # NoFile THEN @ \cup {"chart"} ELSE @]

\* processFile and loadSampleData once the text is parsed: the data file
\* they upload
Uploaded(u, name, type, rows) ==
    DataFile(NatDigits(u.loads + 1), name, type, Stored(rows), analyzeFields(rows))

\* processFile: the extension decides the parser; a JSON value that is no
\* array and any other extension end in the alert, without an upload
IsJsonName(name) == EndsWith(ToLowerCase(name), T_json)
IsCsvName(name)  == EndsWith(ToLowerCase(name), T_csv)

ProcessFile(name, content) ==
    /\ IsCsvName(name) => content.array
    /\ LET accepted == (IsJsonName(name) /\ content.array)
                          \/ (~IsJsonName(name) /\ IsCsvName(name))
           type     == IF IsJsonName(name) THEN "json" ELSE "csv"
       IN  IF accepted
           THEN /\ ui' = handleFileUpload(ui, Uploaded(ui, name, type, content.rows))
                /\ last' = Call("processFile", <<name, content>>, Undef)
           ELSE UNCHANGED <<ui, last>>
    /\ UNCHANGED <<data, fields, tz, prev>>

\* loadSampleData(type): a sample text that parses to no array makes
\* analyzeFields throw, which ends in the alert
LoadSampleData(type, content) ==
    /\ type = "csv" => content.array
    /\ IF content.array
       THEN /\ ui' = handleFileUpload(ui, Uploaded(ui, <<"s">> \o (IF type = "csv" THEN T_csv ELSE T_json),
                                                   type, content.rows))
            /\ last' = Call("loadSampleData", <<type, content>>, Undef)
       ELSE UNCHANGED <<ui, last>>
    /\ UNCHANGED <<data, fields, tz, prev>>

\* clearFile: the button is rendered while rows are loaded
ClearFile ==
    /\ Quiescent
    /\ HasRows(ui.currentFile)
    /\ ui' = handleFileUpload(ui, DataFile(<<>>, <<>>, "csv", <<>>, <<>>))
    /\ last' = Call("clearFile", <<>>, Undef)
    /\ UNCHANGED <<data, fields, tz, prev>>

\* a faulty variant: loading a dataset leaves the condition lists alone
KeepConditions(conds) == conds

\* setFilters([]), setSorts([]) of the panel's effect
EffectConditions(conds) == <<>>

\* the panel's useEffect on [dataFile]
DataFileEffect(u) ==
    IF HasRows(u.currentFile)
    THEN [u EXCEPT !.processor = TRUE,
                   !.panelData = u.currentFile.data,
                   !.filters   = EffectConditions(@),
                   !.sorts     = EffectConditions(@),
                   !.addedAt   = [filters |-> EffectConditions(@.filters),
                                  sorts   |-> EffectConditions(@.sorts)]]
    ELSE [u EXCEPT !.processor = FALSE, !.panelData = <<>>]

\* the <svg> element is rendered, so svgRef.current is set: rows to chart,
\* both axes chosen, no spinner, the D3 engine
SvgMounted(u) ==
    /\ u.currentFile # NoFile /\ Len(u.processedData) > 0
    /\ u.axes
    /\ ~(u.isGenerating \/ u.localIsGenerating)
    /\ u.localChartEngine = "d3"

\* generateChart up to its first await
generateChart(u) ==
    IF u.currentFile = NoFile \/ ~SvgMounted(u) \/ ~u.axes THEN u
    ELSE [u EXCEPT !.localIsGenerating = TRUE]

\* App.handleGenerateComplete
handleGenerateComplete(u) == [u EXCEPT !.shouldGenerate = FALSE, !.isGenerating = FALSE]

\* the chart panel's useEffect on [shouldGenerate, dataFile, config, localChartEngine]
GenerateEffect(u) ==
    IF u.shouldGenerate /\ u.localChartEngine = "d3" THEN generateChart(u)
    ELSE IF u.shouldGenerate THEN handleGenerateComplete(u)
    ELSE u

\* the chart effect's dependencies after the shell's flags went from u to v
Rerendered(u, v) ==
    IF v.shouldGenerate # u.shouldGenerate
          \/ (v.isGenerating # u.isGenerating /\ v.currentFile # NoFile)
    THEN [v EXCEPT !.pending = @ \cup {"chart"}]
    ELSE v

\* the pending effects of a commit run: the processing panel's, then the
\* chart panel's
FlushEffects ==
    /\ ui.pending # {}
    /\ LET u1 == IF "data" \in ui.pending THEN DataFileEffect(ui) ELSE ui
           u2 == IF "chart" \in ui.pending THEN GenerateEffect(u1) ELSE u1
       IN  ui' = Rerendered(ui, [u2 EXCEPT !.pending = {}])
    /\ data' = IF "data" \in ui.pending
               THEN (IF HasRows(ui.currentFile) THEN ui.currentFile.data ELSE <<>>)
               ELSE data
    /\ fields' = IF "data" \in ui.pending
                 THEN (IF HasRows(ui.currentFile) THEN ui.currentFile.fields ELSE <<>>)
                 ELSE fields
    /\ UNCHANGED <<tz, last, prev>>

MaxPanelConds == 1

\* the field select of the panel: its options are the file's fields
SelectField(name) ==
    /\ Quiescent
    /\ ui.currentFile # NoFile
    /\ \E i \in 1..Len(ui.currentFile.fields) : ui.currentFile.fields[i].name = name
    /\ ui' = [ui EXCEPT !.selectedField = name]
    /\ UNCHANGED <<data, fields, tz, last, prev>>

\* addFilter
AddFilter ==
    /\ Quiescent
    /\ ui.currentFile # NoFile /\ ui.selectedField # <<>>
    /\ Len(ui.filters) < MaxPanelConds
    /\ ui' = [ui EXCEPT
                !.filters = Append(@, Condition(ui.selectedField, "equals", Str(<<>>), Undef)),
                !.addedAt.filters = Append(@, ui.loads)]
    /\ UNCHANGED <<data, fields, tz, last, prev>>

\* updateFilter(index, {operator}) and updateFilter(index, {value})
UpdateFilter(index, key, v) ==
    /\ Quiescent
    /\ index \in 1..Len(ui.filters)
    /\ ui' = [ui EXCEPT !.filters[index][key] = v]
    /\ UNCHANGED <<data, fields, tz, last, prev>>

Remove(s, index) == SubSeq(s, 1, index - 1) \o SubSeq(s, index + 1, Len(s))

\* removeFilter(index)
RemoveFilter(index) ==
    /\ Quiescent
    /\ index \in 1..Len(ui.filters)
    /\ ui' = [ui EXCEPT !.filters = Remove(@, index),
                        !.addedAt.filters = Remove(@, index)]
    /\ UNCHANGED <<data, fields, tz, last, prev>>

\* addSort
AddSort ==
    /\ Quiescent
    /\ ui.currentFile # NoFile /\ ui.selectedField # <<>>
    /\ Len(ui.sorts) < MaxPanelConds
    /\ ui' = [ui EXCEPT !.sorts = Append(@, SortCondition(ui.selectedField, "asc")),
                        !.addedAt.sorts = Append(@, ui.loads)]
    /\ UNCHANGED <<data, fields, tz, last, prev>>

\* updateSort(index, {direction})
UpdateSort(index, direction) ==
    /\ Quiescent
    /\ index \in 1..Len(ui.sorts)
    /\ ui' = [ui EXCEPT !.sorts[index].direction = direction]
    /\ UNCHANGED <<data, fields, tz, last, prev>>

\* removeSort(index)
RemoveSort(index) ==
    /\ Quiescent
    /\ index \in 1..Len(ui.sorts)
    /\ ui' = [ui EXCEPT !.sorts = Remove(@, index),
                        !.addedAt.sorts = Remove(@, index)]
    /\ UNCHANGED <<data, fields, tz, last, prev>>

\* a faulty variant: the conditions are applied to the rows on display
ApplyToView(base, view) == view

\* processor.filter(filters) reads the processor's own rows
ApplyInput(base, view) == base

\* applyProcessing: nothing happens without a processor
ApplyProcessing ==
    /\ Quiescent
    /\ ui.currentFile # NoFile
    /\ IF ~ui.processor
       THEN UNCHANGED <<ui, last>>
       ELSE \E out \in sort(filter(ApplyInput(data, ui.panelData), ui.filters), ui.sorts, fields) :
               /\ last' = Call("applyProcessing", <<ui.filters, ui.sorts>>, Undef)
               /\ ui' = handleDataUpdate([ui EXCEPT !.panelData = out], out)
    /\ UNCHANGED <<data, fields, tz, prev>>

\* resetProcessing
ResetProcessing ==
    /\ Quiescent
    /\ ui.currentFile # NoFile
    /\ ui' = handleDataUpdate([ui EXCEPT !.filters = <<>>, !.sorts = <<>>,
                                         !.addedAt = [filters |-> <<>>, sorts |-> <<>>],
                                         !.panelData = ui.currentFile.data],
                              ui.currentFile.data)
    /\ last' = Call("resetProcessing", <<>>, Undef)
    /\ UNCHANGED <<data, fields, tz, prev>>

\* ChartConfigPanel's generate button: disabled while generating or
\* without both axes
HandleGenerateChart ==
    /\ Quiescent
    /\ ~ui.isGenerating /\ ui.axes
    /\ ui' = Rerendered(ui, [ui EXCEPT !.shouldGenerate = TRUE, !.isGenerating = TRUE])
    /\ UNCHANGED <<data, fields, tz, last, prev>>

\* the axis selects of ChartConfigPanel: the y axis offers the number
\* fields of the file; choosing the empty option clears an axis
SetAxes(chosen) ==
    /\ Quiescent
    /\ chosen # ui.axes
    /\ chosen => /\ ui.currentFile # NoFile
                 /\ \E i \in 1..Len(ui.currentFile.fields) :
                       ui.currentFile.fields[i].type = "number"
    /\ ui' = [ui EXCEPT !.axes = chosen, !.pending = @ \cup {"chart"}]
    /\ UNCHANGED <<data, fields, tz, last, prev>>

\* the engine buttons of the chart panel
SetLocalChartEngine(engine) ==
    /\ Quiescent
    /\ engine # ui.localChartEngine
    /\ ui' = [ui EXCEPT !.localChartEngine = engine, !.pending = @ \cup {"chart"}]
    /\ UNCHANGED <<data, fields, tz, last, prev>>

\* the regenerate button of the chart panel: onClick = generateChart
Regenerate ==
    /\ Quiescent
    /\ ui' = generateChart(ui)
    /\ UNCHANGED <<data, fields, tz, last, prev>>

\* generateChart after its await: the finally block
GenerateFinish ==
    /\ ui.localIsGenerating
    /\ ui' = Rerendered(ui, handleGenerateComplete([ui EXCEPT !.localIsGenerating = FALSE]))
    /\ UNCHANGED <<data, fields, tz, last, prev>>

InitApp ==
    /\ data = <<>>
    /\ fields = <<>>
    /\ tz = 0
    /\ last = NoCall
    /\ prev = NoCall
    /\ ui = InitialUi

N_csv  == <<"d">> \o T_csv
N_JSON == <<"D", ".", "J", "S", "O", "N">>
N_txt  == <<"d", ".", "t", "x", "t">>

(***************************************************************************)
(* Uploads of parsed inputs around the row limit                           *)
(***************************************************************************)
MaxUploads == 2

\* n rows that carry their position
NumberedRows(n) == [i \in 1..n |-> [k \in {F_a} |-> Num(i)]]

UploadSizes == {0, 1, RowLimit - 1, RowLimit, RowLimit + 1, RowLimit + 7}

UploadFiles ==
    {<<name, JsonArray(NumberedRows(n))>> : name \in {N_csv, N_JSON}, n \in UploadSizes}
        \cup {<<N_JSON, JsonOther>>, <<N_txt, JsonArray(NumberedRows(1))>>}

NextUpload ==
    \/ \E f \in UploadFiles : ui.loads < MaxUploads /\ ProcessFile(f[1], f[2])
    \/ \E type \in {"csv", "json"},
          content \in {JsonArray(NumberedRows(n)) : n \in UploadSizes} \cup {JsonOther} :
          ui.loads < MaxUploads /\ LoadSampleData(type, content)
    \/ ui.loads < MaxUploads /\ ClearFile
    \/ FlushEffects

SpecUpload == InitApp /\ [][NextUpload]_vars

\* C25: every dataset handed to the processing engine holds at most 1000
\* rows: after an upload or a sample-data load the stored dataset is the
\* first min(1000, N) parsed rows in their original order
UploadCapped ==
    /\ last.op \in {"processFile", "loadSampleData"} =>
          LET parsed == last.args[2].rows
              m      == Min(1000, Len(parsed))
          IN  /\ Len(ui.currentFile.data) = m
              /\ \A i \in 1..m : ui.currentFile.data[i] = parsed[i]
    /\ ui.processor => Len(data) <= 1000
    /\ (Quiescent /\ ui.processor) => data = ui.currentFile.data

\* 1001 rows were parsed and the processor holds the first 1000 of them
UploadCappedWitness ==
    /\ last.op = "processFile"
    /\ Len(last.args[2].rows) = 1001
    /\ ui.processor
    /\ Len(data) = 1000
    /\ data[1000] = last.args[2].rows[1000]

(***************************************************************************)
(* The processing panel: conditions, apply and reset between uploads       *)
(***************************************************************************)
MaxLoads == 3

PanelRow(c) == [k \in {F_a} |-> Str(c)]

PanelFiles ==
    { <<N_JSON, JsonArray(<<PanelRow(<<"y">>), PanelRow(<<"x">>), PanelRow(<<"y">>)>>)>>,
      <<N_csv, JsonArray(<<>>)>>,
      <<N_JSON, JsonOther>> }

FilterUpdates == { <<"value", Str(<<"x">>)>>, <<"value", Str(<<"y">>)>> }

NextPanel ==
    \/ \E f \in PanelFiles : ui.loads < MaxLoads /\ ProcessFile(f[1], f[2])
    \/ ui.loads < MaxLoads /\ ClearFile
    \/ FlushEffects
    \/ SelectField(F_a)
    \/ AddFilter
    \/ \E i \in 1..MaxPanelConds, upd \in FilterUpdates : UpdateFilter(i, upd[1], upd[2])
    \/ \E i \in 1..MaxPanelConds : RemoveFilter(i)
    \/ AddSort
    \/ \E i \in 1..MaxPanelConds, d \in {"asc", "desc"} : UpdateSort(i, d)
    \/ \E i \in 1..MaxPanelConds : RemoveSort(i)
    \/ ApplyProcessing
    \/ ResetProcessing

SpecPanel == InitApp /\ [][NextPanel]_vars

\* the rows of the loaded file, none without a file
Base == IF ui.currentFile = NoFile THEN <<>> ELSE ui.currentFile.data

\* the views the claim allows after the most recent upload, clear, apply
\* or reset
ClaimedViews ==
    IF last.op = "applyProcessing"
    THEN sort(filter(Base, last.args[1]), last.args[2],
              IF ui.currentFile = NoFile THEN <<>> ELSE ui.currentFile.fields)
    ELSE {Base}

\* a second apply with the conditions of the first leaves the view alone
ApplyAgainSameView ==
    (/\ last.op = "applyProcessing" /\ last'.op = "applyProcessing"
     /\ last'.args = last.args
     /\ ui'.currentFile = ui.currentFile /\ ui'.filters = ui.filters /\ ui'.sorts = ui.sorts
     /\ Quiescent)
        => (ui'.panelData = ui.panelData /\ ui'.processedData = ui.processedData)

\* C26: the working view is always derived from the base dataset, never
\* from a previous working view: it is sort(filter(base, F), S) for the
\* lists in force at the most recent apply, or the full base dataset if no
\* apply has happened since the last upload or reset; applying twice with
\* unchanged conditions yields the same view
ViewDerivedFromBase ==
    /\ [](Quiescent => (ui.panelData \in ClaimedViews /\ ui.processedData \in ClaimedViews))
    /\ [][ApplyAgainSameView]_vars

\* a filter on y and a descending sort were applied to the rows y, x, y:
\* the view holds the two y rows of the base
ViewDerivedFromBaseWitness ==
    /\ last.op = "applyProcessing"
    /\ Quiescent
    /\ Len(Base) = 3
    /\ last.args[1] = <<Condition(F_a, "equals", Str(<<"y">>), Undef)>>
    /\ last.args[2] = <<SortCondition(F_a, "desc")>>
    /\ ui.panelData = <<Base[1], Base[3]>>

\* C28: in every quiescent state the processed rows held by the shell equal
\* the processed rows held by the processing panel
ViewCopiesAgree == Quiescent => ui.processedData = ui.panelData

\* an apply left both copies with the filtered rows, fewer than the base
ViewCopiesAgreeWitness ==
    /\ last.op = "applyProcessing"
    /\ Quiescent
    /\ ui.processor
    /\ ui.panelData = <<PanelRow(<<"x">>)>>
    /\ ui.processedData = <<PanelRow(<<"x">>)>>
    /\ Len(Base) = 3

\* C29: an apply never evaluates a filter or sort condition that was added
\* while a different dataset was loaded
NoCarriedConditions ==
    (last.op = "applyProcessing" /\ ui.processor) =>
        /\ \A i \in 1..Len(ui.addedAt.filters) : ui.addedAt.filters[i] = ui.loads
        /\ \A i \in 1..Len(ui.addedAt.sorts) : ui.addedAt.sorts[i] = ui.loads

\* a condition was added while the file was cleared, then a second file
\* was loaded and a condition added for it was applied
NoCarriedConditionsWitness ==
    /\ last.op = "applyProcessing"
    /\ ui.processor
    /\ ui.loads = 3
    /\ Len(ui.filters) = 1
    /\ ui.addedAt.filters = <<3>>

(***************************************************************************)
(* The chart panel: the generate button, the effect and the engines        *)
(***************************************************************************)
MaxChartLoads == 3

\* a file with a text field and a number field, and a file without rows
ChartFiles ==
    { <<N_JSON, JsonArray(<<[k \in {F_a, F_n} |-> IF k = F_a THEN Str(<<"x">>) ELSE Num(1)]>>)>>,
      <<N_csv, JsonArray(<<[k \in {F_a} |-> Str(<<"x">>)]>>)>>,
      <<N_csv, JsonArray(<<>>)>> }

NextChart ==
    \/ \E f \in ChartFiles : ui.loads < MaxChartLoads /\ ProcessFile(f[1], f[2])
    \/ ui.loads < MaxChartLoads /\ ClearFile
    \/ FlushEffects
    \/ \E chosen \in BOOLEAN : SetAxes(chosen)
    \/ \E engine \in {"d3", "plotly"} : SetLocalChartEngine(engine)
    \/ HandleGenerateChart
    \/ Regenerate
    \/ GenerateFinish

\* the scheduler runs a pending effect and resumes an awaited generateChart;
\* the user's clicks are under no obligation
SpecChart == InitApp /\ [][NextChart]_vars /\ WF_vars(FlushEffects) /\ WF_vars(GenerateFinish)

\* C27: chart generation always completes: whenever the generate action
\* has set isGenerating, the completion callback is eventually invoked
\* without further user action and isGenerating returns to false
GenerationCompletes == ui.isGenerating ~> ~ui.isGenerating

====
